---- MODULE Spec2Model ----
(***************************************************************************)
(* Verification model of cyper's transport layer:                          *)
(*   - the HTTP/3 connection pool       (cyper/src/http3.rs)               *)
(*   - the hyper stream adapter         (cyper-core/src/stream.rs)         *)
(*   - the Alt-Svc cache and its use    (cyper/src/altsvc.rs, client.rs)   *)
(* Each component has its own specification (SpecPool, SpecStream,         *)
(* SpecCache); the variables of the other components stay at their         *)
(* initial value. SpecParse applies altsvc::parse to texts built from      *)
(* parameter fragments. SpecLocks follows the two mutexes along            *)
(* Client::execute.                                                        *)
(***************************************************************************)
EXTENDS Integers, FiniteSets, Sequences, TLC

VARIABLES
    \* ---- Pool (http3.rs) ----
    connecting,     \* PoolInner.connecting : HashSet<Key>
    idle_conns,     \* PoolInner.idle_conns : HashMap<Key, PoolConnection>
    close_rx,       \* per connection: what close_rx.try_recv() would see
    nconn,          \* number of connections the connector has produced so far
    pc,             \* per caller: position inside Client::get_pooled_client
    key,            \* per caller: the key of the call it is inside
    now,            \* Instant::now(), in whole ticks
    lastp,          \* the pool step just taken and what it returned
    abandoned,      \* history: keys whose attempt was dropped inside connect().await
    \* ---- HyperStream (cyper-core/src/stream.rs) ----
    read_future,    \* Option<PinBoxFuture<io::Result<usize>>>
    write_future,   \* Option<PinBoxFuture<io::Result<usize>>>
    shutdown_future,\* Option<PinBoxFuture<io::Result<()>>>
    nops,           \* number of underlying operations created so far
    rbuf,           \* SyncStream: bytes waiting in the read buffer
    eof,            \* SyncStream: the inner stream reported end of file
    wbuf,           \* SyncStream: bytes waiting in the write buffer
    lasts,          \* the adapter call just made and what it returned
    \* ---- KnownHosts and Client::execute (altsvc.rs, client.rs) ----
    h3_hosts,       \* KnownHosts.map : HashMap<String, AltHostEntry>
    instant,        \* Instant::now(), in ticks of 1/TicksPerSec second
    task,           \* per task: position inside Client::execute and its locals
    lastc,          \* the execute step just taken and what it did
    accepted,       \* history: per host, the advertisement last stored and not cleared
    advertised,     \* history: per host, latest expiry any eligible advertised service promised
    \* ---- altsvc::parse on its own (altsvc.rs) ----
    alt_svc,        \* the text handed to parse
    parse_result,   \* what parse returned for it
    \* ---- the two mutexes along Client::execute ----
    pool_mutex,     \* Pool.inner : which caller holds the guard, 0 when free
    cache_mutex,    \* KnownHosts.map : which caller holds the guard, 0 when free
    lpc             \* per caller: position inside Client::execute

poolVars == <<connecting, idle_conns, close_rx, nconn, pc, key, now, lastp, abandoned>>

streamVars == <<read_future, write_future, shutdown_future, nops, rbuf, eof, wbuf, lasts>>

cacheVars == <<h3_hosts, instant, task, lastc, accepted, advertised>>

parseVars == <<alt_svc, parse_result>>

lockVars == <<pool_mutex, cache_mutex, lpc>>

vars == <<poolVars, streamVars, cacheVars, parseVars, lockVars>>

----------------------------------------------------------------------------
(* Bounds *)

\* number of concurrent callers of Client::request sharing one pool
NumCallers == 2
\* number of connections the connector may hand out in one behaviour
MaxConns == 2
\* number of clock ticks in one behaviour
MaxTime == 1

Keys == {"k1", "k2"}
Callers == 1..NumCallers
ConnIds == 1..MaxConns
NoKey == "nokey"

----------------------------------------------------------------------------
(* Pool: pure helpers *)

\* mutant: a disconnected channel (sender dropped without a message) counts as alive
is_invalid_ignoring_disconnect(ch) == ch = "msg"

\* PoolConnection::is_invalid: close_rx.try_recv() is Empty => false,
\* Disconnected => true, Ok(_) => true
is_invalid(ch) ==
    CASE ch = "empty" -> FALSE
      [] ch = "disc"  -> TRUE
      [] ch = "msg"   -> TRUE

\* mutant: the clone is handed out without touching idle_timeout
pool_without_refresh(conn, t) == conn

\* PoolConnection::pool: idle_timeout = Instant::now(); client.clone()
PoolConnection_pool(conn, t) == [conn EXCEPT !.idle_timeout = t]

\* PoolConnection::new(client, close_rx): idle_timeout = Instant::now()
PoolConnection_new(client, t) == [client |-> client, idle_timeout |-> t]

\* mutant: the duplicate check is made but the key is not recorded
insert_not_recorded(set, k) == [ok |-> k \notin set, set |-> set]

\* mutant: the result of HashSet::insert is ignored, every attempt proceeds
insert_always_ok(set, k) == [ok |-> TRUE, set |-> set \cup {k}]

\* HashSet::insert as used by Pool::connecting: false when the key is present
connecting_insert(set, k) == [ok |-> k \notin set, set |-> set \cup {k}]

\* mutant: the key is left in the set, to be removed under a later lock
remove_deferred(set, k) == [existed |-> k \in set, set |-> set]

\* HashSet::remove as used by Pool::new_connection: true when the key was present
connecting_remove(set, k) == [existed |-> k \in set, set |-> set \ {k}]

\* HashMap::remove
map_remove(m, k) == [x \in (DOMAIN m) \ {k} |-> m[x]]

\* HashMap::insert
map_insert(m, k, v) == [x \in (DOMAIN m) \cup {k} |-> IF x = k THEN v ELSE m[x]]

\* the liveness channel of the entry stored for k
chan_of(m, k) == close_rx[m[k].client]

\* a caller between a successful Pool::connecting and the end of its attempt
InFlight(c) == pc[c] = "connect"

\* op: the operation, c: its caller, ret: what it returned, client: the connection
\* it returned, created or (try_pool returning None) evicted
Step(op, c, k, ret, client) == [op |-> op, c |-> c, key |-> k, ret |-> ret, client |-> client]

----------------------------------------------------------------------------
(* HyperStream: bounds and pure helpers *)

\* number of underlying operations the adapter may create in one behaviour
MaxOps == 3
\* capacity of the SyncStream read buffer, in bytes
RCap == 2
\* capacity of the SyncStream write buffer, in bytes
WCap == 3
\* largest buffer a caller passes to poll_read / poll_write, in bytes
MaxBuf == 2

NoFut == [id |-> 0, st |-> "none", len |-> 0]

\* mutant: the operation is polled once when it is created
new_future_polled(id) == [id |-> id, st |-> "inflight", len |-> 0]

\* Box::pin(SendWrapper::new($e)): a future that has not been polled yet
new_future(id) == [id |-> id, st |-> "new", len |-> 0]

\* what the first poll of a fresh future can give: the operation is submitted and
\* is either still outstanding or has already finished
FirstPoll == {"pending", "ok", "err"}

\* f.as_mut().poll(cx): Pending leaves the operation in flight, Ready carries the
\* io::Result of the operation and (for a read) the number of bytes it produced
poll(f, first, len) ==
    CASE f.st = "new" /\ first = "pending" ->
            [ready |-> FALSE, res |-> "none", len |-> 0, fut |-> [f EXCEPT !.st = "inflight"]]
      [] f.st = "new" /\ first # "pending" ->
            [ready |-> TRUE, res |-> first, len |-> IF first = "ok" THEN len ELSE 0, fut |-> NoFut]
      [] f.st = "inflight" ->
            [ready |-> FALSE, res |-> "none", len |-> 0, fut |-> f]
      [] f.st \in {"ok", "err"} ->
            [ready |-> TRUE, res |-> f.st, len |-> f.len, fut |-> NoFut]

\* SyncStream::fill_read_buf resolved: Ok(0) sets eof, Ok(n) appends n bytes,
\* Err leaves the buffer as it was
after_fill(res, len, rb, ef) ==
    IF res = "ok" THEN [rbuf |-> rb + len, eof |-> ef \/ len = 0]
    ELSE [rbuf |-> rb, eof |-> ef]

\* SyncStream::flush_write_buf resolved: Ok empties the write buffer
after_flush(res, wb) == IF res = "ok" THEN 0 ELSE wb

\* io::Read for SyncStream, as called by read_buf: WouldBlock when the buffer is
\* empty and eof was not seen, else min(available, space) bytes are copied out
sync_read(rb, ef, n) ==
    IF rb = 0 /\ ~ef THEN [kind |-> "WouldBlock", len |-> 0]
    ELSE [kind |-> "Ok", len |-> IF rb < n THEN rb ELSE n]

\* Buffer::need_flush of the SyncStream write buffer
need_flush(wb) == wb * 3 > WCap * 2

\* io::Write::write for SyncStream: WouldBlock when the buffer needs flushing,
\* else as many bytes as fit are copied in
sync_write(wb, n) ==
    IF need_flush(wb) THEN [kind |-> "WouldBlock", len |-> 0]
    ELSE [kind |-> "Ok", len |-> IF WCap - wb < n THEN WCap - wb ELSE n]

\* sync: what the synchronous buffer operation of the call gave ("none": the call
\* returned without performing it)
Call(op, ret, n, polled, observed, started, woke) ==
    [op |-> op, ret |-> ret, n |-> n, polled |-> polled, observed |-> observed,
     started |-> started, woke |-> woke, sync |-> "none"]

\* the call went on to its synchronous buffer operation, which gave `kind`
Synced(call, kind) == [call EXCEPT !.sync = kind]

\* mutant: a future that is still pending is dropped instead of being put back
would_block_forgets_replace(f, first, len) ==
    IF f = NoFut
    THEN [pending |-> FALSE, fut |-> NoFut, polled |-> 0, res |-> "none", len |-> 0]
    ELSE LET r == poll(f, first, len) IN
         [pending |-> ~r.ready, fut |-> NoFut, polled |-> f.id, res |-> r.res, len |-> r.len]

\* mutant: a pending future is put back but the `return Poll::Pending` is missing
would_block_falls_through(f, first, len) ==
    IF f = NoFut
    THEN [pending |-> FALSE, fut |-> NoFut, polled |-> 0, res |-> "none", len |-> 0]
    ELSE LET r == poll(f, first, len) IN
         [pending |-> FALSE, fut |-> r.fut, polled |-> f.id, res |-> r.res, len |-> r.len]

\* poll_future_would_block!, first half: `if let Some(mut f) = $f.take()`: a
\* pending future is put back and the call returns Pending; the value of a
\* ready one is dropped and the slot stays empty
poll_future_would_block(f, first, len) ==
    IF f = NoFut
    THEN [pending |-> FALSE, fut |-> NoFut, polled |-> 0, res |-> "none", len |-> 0]
    ELSE LET r == poll(f, first, len) IN
         [pending |-> ~r.ready, fut |-> r.fut, polled |-> f.id, res |-> r.res, len |-> r.len]

\* mutant: the stored future is ignored and a fresh operation is polled every time
poll_future_always_new(f, first, id) ==
    LET r == poll(new_future(id), first, 0) IN
    [pending |-> ~r.ready, fut |-> r.fut, polled |-> id, started |-> id, res |-> r.res]

\* mutant: a future that is ready is put back into the slot
poll_future_keeps_ready(f, first, id) ==
    LET fut == IF f = NoFut THEN new_future(id) ELSE f
        r == poll(fut, first, 0) IN
    [pending |-> ~r.ready,
     fut |-> IF r.ready THEN [fut EXCEPT !.st = r.res] ELSE r.fut,
     polled |-> fut.id,
     started |-> IF f = NoFut THEN id ELSE 0, res |-> r.res]

\* poll_future!: take the stored future or create one, poll it; Pending puts it
\* back, Ready(res) leaves the slot empty and yields res
poll_future(f, first, id) ==
    LET fut == IF f = NoFut THEN new_future(id) ELSE f
        r == poll(fut, first, 0) IN
    [pending |-> ~r.ready, fut |-> r.fut, polled |-> fut.id,
     started |-> IF f = NoFut THEN id ELSE 0, res |-> r.res]

\* mutant: the check of the other slot is missing
never_blocked(other) == FALSE

\* mutant: the other slot counts as occupied only until its operation has finished
blocked_until_finished(other) == other.st \in {"new", "inflight"}

\* mutant: a stored read also holds the call back
blocked_by_read(other) == other # NoFut \/ read_future # NoFut

\* poll_write / poll_flush: `if this.shutdown_future.is_some()`
write_blocked(other) == other # NoFut

\* poll_shutdown: `if this.write_future.is_some()`
shutdown_blocked(other) == other # NoFut

\* what a call that returns at once leaves behind
Blocked(op) == Call(op, "Pending", 0, 0, "none", 0, FALSE)

----------------------------------------------------------------------------
(* Alt-Svc (altsvc.rs): text is a sequence of one-character strings *)

\* Bound: the clock stops after this many ticks.
MaxInstant == 4

\* Ticks per second: Duration::as_secs drops the fraction of a second.
TicksPerSec == 2

\* srv.max_age.unwrap_or(86400): the default lifetime of an entry, in seconds.
DefaultMaxAge == 86400

\* The only port an advertised service may have.
H3Port == 443

\* u16::MAX, the largest port number that parses.
U16Max == 65535

\* Longest digit string whose value is computed (u64 holds far more; the
\* header texts below never come near).
MaxDigits == 9

Whitespace == {" ", "\t"}

Digits == <<"0", "1", "2", "3", "4", "5", "6", "7", "8", "9">>

\* The supported protocol id, "h3".
H3Id == <<"h", "3">>

\* str::trim_start_matches / trim_end_matches for a set of characters.
RECURSIVE trim_start_matches(_, _)
trim_start_matches(s, set) ==
    IF s # <<>> /\ Head(s) \in set THEN trim_start_matches(Tail(s), set) ELSE s

RECURSIVE trim_end_matches(_, _)
trim_end_matches(s, set) ==
    IF s # <<>> /\ s[Len(s)] \in set
    THEN trim_end_matches(SubSeq(s, 1, Len(s) - 1), set)
    ELSE s

\* str::trim_matches(ch): strips every leading and trailing ch.
trim_matches(s, set) == trim_end_matches(trim_start_matches(s, set), set)

\* str::trim(): strips leading and trailing whitespace.
trim(s) == trim_matches(s, Whitespace)

\* str::split(sep).collect(): the pieces between occurrences of sep; a text
\* without sep is one piece, and empty pieces are kept.
RECURSIVE split(_, _)
split(s, sep) ==
    IF \A i \in 1..Len(s) : s[i] # sep
    THEN <<s>>
    ELSE LET i == CHOOSE i \in 1..Len(s) :
                      s[i] = sep /\ \A j \in 1..(i - 1) : s[j] # sep
         IN  <<SubSeq(s, 1, i - 1)>> \o split(SubSeq(s, i + 1, Len(s)), sep)

DigitValue(c) == (CHOOSE d \in 1..10 : Digits[d] = c) - 1

RECURSIVE digits_value(_)
digits_value(s) ==
    IF s = <<>> THEN 0
    ELSE digits_value(SubSeq(s, 1, Len(s) - 1)) * 10 + DigitValue(s[Len(s)])

\* str::parse::<integer type>() before the range check: an optional sign
\* ('-' for signed types only), then at least one decimal digit.
from_str(s, signed) ==
    LET neg  == signed /\ s # <<>> /\ Head(s) = "-"
        body == IF s # <<>> /\ (Head(s) = "+" \/ neg) THEN Tail(s) ELSE s
        isnum == /\ body # <<>>
                 /\ Len(body) <= MaxDigits
                 /\ \A i \in 1..Len(body) : \E d \in 1..10 : Digits[d] = body[i]
    IN  IF isnum
        THEN [ok |-> TRUE, val |-> IF neg THEN 0 - digits_value(body) ELSE digits_value(body)]
        ELSE [ok |-> FALSE, val |-> 0]

\* v.parse::<u64>() for ma; a text of MaxDigits digits is within u64.
parse_u64(s) == from_str(s, FALSE)

\* v.parse::<i32>() for persist; a text of MaxDigits digits is within i32.
parse_i32(s) == from_str(s, TRUE)

\* port.parse::<u16>(): a value above u16::MAX does not parse.
parse_u16(s) ==
    LET r == from_str(s, FALSE)
    IN  IF r.ok /\ r.val <= U16Max THEN r ELSE [ok |-> FALSE, val |-> 0]

\* Option<T> as a sequence of length 0 (None) or 1 (Some).
None == <<>>
Some(x) == <<x>>
unwrap_or(opt, d) == IF opt = None THEN d ELSE opt[1]

\* Service::default()
Service_default ==
    [id |-> <<>>, host |-> <<>>, port |-> 0, max_age |-> None, persist |-> FALSE]

\* The three outcomes of parse.
Clear == [kind |-> "Clear", services |-> <<>>, err |-> "none", arg |-> <<>>]
Services(list) == [kind |-> "Services", services |-> list, err |-> "none", arg |-> <<>>]
ParseError(e, text) == [kind |-> "Err", services |-> <<>>, err |-> e, arg |-> text]

Good(svc) == [ok |-> TRUE, svc |-> svc, err |-> "none", arg |-> <<>>]
Bad(e, text) == [ok |-> FALSE, svc |-> Service_default, err |-> e, arg |-> text]

\* Variant of the parameter step that rejects a persist value other than 1.
parse_param_persist_one(svc, raw_kv) ==
    LET kv_split == split(raw_kv, "=")
        k == kv_split[1]
        v == kv_split[2]
    IN  IF Len(kv_split) # 2 THEN Bad("Parameter", raw_kv)
        ELSE IF k = <<"m", "a">> THEN
            LET ma == parse_u64(v)
            IN  IF ma.ok
                THEN Good([svc EXCEPT !.max_age = Some(ma.val)])
                ELSE Bad("MaValue", v)
        ELSE IF k = <<"p", "e", "r", "s", "i", "s", "t">> THEN
            LET persist == parse_i32(v)
            IN  IF ~persist.ok \/ persist.val # 1 THEN Bad("PersistValue", v)
                ELSE Good([svc EXCEPT !.persist = TRUE])
        ELSE
            LET raw_value == trim_matches(v, {"\""})
                alt_auth_split == split(raw_value, ":")
                port == parse_u16(alt_auth_split[2])
            IN  IF Len(alt_auth_split) # 2 THEN Bad("AltAuthorityValue", raw_value)
                ELSE IF ~port.ok THEN Bad("PortNumber", alt_auth_split[2])
                ELSE Good([svc EXCEPT !.id = k,
                                      !.host = alt_auth_split[1],
                                      !.port = port.val])

\* One parameter of a service (the body of the inner loop of parse):
\* the service after it, or the error it raises.
parse_param(svc, raw_kv) ==
    LET kv_split == split(raw_kv, "=")
        k == kv_split[1]
        v == kv_split[2]
    IN  IF Len(kv_split) # 2 THEN Bad("Parameter", raw_kv)
        ELSE IF k = <<"m", "a">> THEN
            LET ma == parse_u64(v)
            IN  IF ma.ok
                THEN Good([svc EXCEPT !.max_age = Some(ma.val)])
                ELSE Bad("MaValue", v)
        ELSE IF k = <<"p", "e", "r", "s", "i", "s", "t">> THEN
            LET persist == parse_i32(v)
            IN  IF ~persist.ok THEN Bad("PersistValue", v)
                ELSE IF persist.val # 1 THEN Good(svc)
                ELSE Good([svc EXCEPT !.persist = TRUE])
        ELSE
            LET raw_value == trim_matches(v, {"\""})
                alt_auth_split == split(raw_value, ":")
                port == parse_u16(alt_auth_split[2])
            IN  IF Len(alt_auth_split) # 2 THEN Bad("AltAuthorityValue", raw_value)
                ELSE IF ~port.ok THEN Bad("PortNumber", alt_auth_split[2])
                ELSE Good([svc EXCEPT !.id = k,
                                      !.host = alt_auth_split[1],
                                      !.port = port.val])

\* The inner loop of parse: the parameters of one service, left to right.
RECURSIVE parse_params(_, _)
parse_params(svc, params) ==
    IF params = <<>> THEN Good(svc)
    ELSE LET raw_kv == trim(Head(params))
         IN  IF raw_kv = <<>> THEN parse_params(svc, Tail(params))
             ELSE LET r == parse_param(svc, raw_kv)
                  IN  IF r.ok THEN parse_params(r.svc, Tail(params)) ELSE r

\* Variant of the outer loop that does not skip an empty entry.
RECURSIVE parse_services_keeps_empty(_, _)
parse_services_keeps_empty(ret, services) ==
    IF services = <<>> THEN Services(ret)
    ELSE LET r == parse_params(Service_default, split(trim(Head(services)), ";"))
         IN  IF r.ok
             THEN parse_services_keeps_empty(Append(ret, r.svc), Tail(services))
             ELSE ParseError(r.err, r.arg)

\* The outer loop of parse: the comma-separated entries, left to right.
RECURSIVE parse_services(_, _)
parse_services(ret, services) ==
    IF services = <<>> THEN Services(ret)
    ELSE LET svc_string == trim(Head(services))
         IN  IF svc_string = <<>> THEN parse_services(ret, Tail(services))
             ELSE LET r == parse_params(Service_default, split(svc_string, ";"))
                  IN  IF r.ok
                      THEN parse_services(Append(ret, r.svc), Tail(services))
                      ELSE ParseError(r.err, r.arg)

\* Variant of the outer loop that drops a malformed entry and keeps the rest.
RECURSIVE parse_services_lenient(_, _)
parse_services_lenient(ret, services) ==
    IF services = <<>> THEN Services(ret)
    ELSE LET svc_string == trim(Head(services))
             r == parse_params(Service_default, split(svc_string, ";"))
         IN  IF svc_string = <<>> \/ ~r.ok
             THEN parse_services_lenient(ret, Tail(services))
             ELSE parse_services_lenient(Append(ret, r.svc), Tail(services))

\* Variant of parse that drops a malformed entry and keeps the rest.
parse_lenient(s) ==
    IF s = <<"c", "l", "e", "a", "r">> THEN Clear
    ELSE parse_services_lenient(<<>>, split(s, ","))

\* altsvc::parse
parse(s) ==
    IF s = <<"c", "l", "e", "a", "r">> THEN Clear
    ELSE parse_services(<<>>, split(s, ","))

----------------------------------------------------------------------------
(* Alt-Svc header values a response may carry (client.rs, res.headers().get(ALT_SVC)) *)

\* the clear directive:  clear
Hdr_clear ==
    <<"c", "l", "e", "a", "r">>

\* the clear directive with a space on each side:   clear 
Hdr_clear_spaced ==
    <<" ", "c", "l", "e", "a", "r", " ">>

\* one eligible service, max-age 1:  h3=':443'; ma=1
Hdr_h3_ma1 ==
    <<"h", "3", "=", "\"", ":", "4", "4", "3", "\"", ";", " ", "m", "a", "=", "1">>

\* one eligible service, max-age 0:  h3=':443'; ma=0
Hdr_h3_ma0 ==
    <<"h", "3", "=", "\"", ":", "4", "4", "3", "\"", ";", " ", "m", "a", "=", "0">>

\* one eligible service, no max-age:  h3=':443'
Hdr_h3_default ==
    <<"h", "3", "=", "\"", ":", "4", "4", "3", "\"">>

\* a service on port 8443, then one for host b:  h3=':8443', h3='b:443'; ma=1
Hdr_port_host ==
    <<"h", "3", "=", "\"", ":", "8", "4", "4", "3", "\"", ",", " ", "h", "3", "=", "\"", "b", ":", "4", "4", "3", "\"", ";", " ", "m", "a", "=", "1">>

\* another protocol, then two eligible services with different max-age:  h2=':443', h3=':443'; ma=0, h3=':443'; ma=1
Hdr_three ==
    <<"h", "2", "=", "\"", ":", "4", "4", "3", "\"", ",", " ", "h", "3", "=", "\"", ":", "4", "4", "3", "\"", ";", " ", "m", "a", "=", "0", ",", " ", "h", "3", "=", "\"", ":", "4", "4", "3", "\"", ";", " ", "m", "a", "=", "1">>

\* an eligible service, then an entry whose port is not a number:  h3=':443'; ma=1, h3=':x'
Hdr_then_bad ==
    <<"h", "3", "=", "\"", ":", "4", "4", "3", "\"", ";", " ", "m", "a", "=", "1", ",", " ", "h", "3", "=", "\"", ":", "x", "\"">>

\* an entry whose max-age is not a number, then an eligible service:  ma=x, h3=':443'
Hdr_bad_then ==
    <<"m", "a", "=", "x", ",", " ", "h", "3", "=", "\"", ":", "4", "4", "3", "\"">>

Headers ==
    {Hdr_clear,
     Hdr_clear_spaced,
     Hdr_h3_ma1,
     Hdr_h3_ma0,
     Hdr_h3_default,
     Hdr_port_host,
     Hdr_three,
     Hdr_then_bad,
     Hdr_bad_then}

\* A header value that is not UTF-8 text.
NotUtf8 == <<"0xFF">>

\* What res.headers().get(ALT_SVC) may return.
HeaderValues == {None} \cup {Some(h) : h \in Headers \cup {NotUtf8}}

\* parse, tabulated over the header texts.
Parsed == [h \in Headers |-> parse(h)]

\* std::str::from_utf8
from_utf8(bytes) == [ok |-> bytes # NotUtf8, text |-> bytes]

\* Request hosts.
Hosts == {<<"a">>, <<"b">>}

\* Tasks running Client::execute; requests are made one after another.
Tasks == {"t1"}

\* Request versions: what request.version() may be.
Versions == {"HTTP_11", "HTTP_3"}

----------------------------------------------------------------------------
(* KnownHosts (altsvc.rs) *)

\* Variant of as_secs that counts a started second as a whole one.
as_secs_rounded_up(d) == (d + TicksPerSec - 1) \div TicksPerSec

\* Duration::as_secs(): whole seconds, the fraction dropped.
as_secs(d) == d \div TicksPerSec

AltHostEntry(t, age) == [insert_time |-> t, max_age |-> age]

\* Variant of try_insert that does not look at the port.
try_insert_any_port(m, host, srv, t) ==
    IF srv.id = H3Id /\ (srv.host = <<>> \/ srv.host = host)
    THEN [ret |-> TRUE,
          map |-> map_insert(m, host, AltHostEntry(t, unwrap_or(srv.max_age, DefaultMaxAge)))]
    ELSE [ret |-> FALSE, map |-> m]

\* Variant of try_insert that keeps the entry a host already has.
try_insert_keeps_existing(m, host, srv, t) ==
    IF srv.id = H3Id /\ (srv.host = <<>> \/ srv.host = host) /\ srv.port = H3Port
    THEN [ret |-> TRUE,
          map |-> IF host \in DOMAIN m THEN m
                  ELSE map_insert(m, host, AltHostEntry(t, unwrap_or(srv.max_age, DefaultMaxAge)))]
    ELSE [ret |-> FALSE, map |-> m]

\* KnownHosts::try_insert at time t: what it returns and the map it leaves.
try_insert(m, host, srv, t) ==
    IF srv.id = H3Id /\ (srv.host = <<>> \/ srv.host = host) /\ srv.port = H3Port
    THEN [ret |-> TRUE,
          map |-> map_insert(m, host, AltHostEntry(t, unwrap_or(srv.max_age, DefaultMaxAge)))]
    ELSE [ret |-> FALSE, map |-> m]

\* Variant of find that rejects an entry whose age equals max_age.
find_strict(m, host, t) ==
    IF host \in DOMAIN m /\ as_secs(t - m[host].insert_time) < m[host].max_age
    THEN [ret |-> TRUE, map |-> map_insert(map_remove(m, host), host, m[host])]
    ELSE [ret |-> FALSE, map |-> map_remove(m, host)]

\* Variant of find that leaves an expired entry in the map.
find_keeps_expired(m, host, t) ==
    IF host \in DOMAIN m /\ as_secs(t - m[host].insert_time) <= m[host].max_age
    THEN [ret |-> TRUE, map |-> m]
    ELSE [ret |-> FALSE, map |-> m]

\* Variant of find that re-inserts an unexpired entry with the current time.
find_refreshes(m, host, t) ==
    IF host \in DOMAIN m /\ as_secs(t - m[host].insert_time) <= m[host].max_age
    THEN [ret |-> TRUE,
          map |-> map_insert(map_remove(m, host), host, AltHostEntry(t, m[host].max_age))]
    ELSE [ret |-> FALSE, map |-> map_remove(m, host)]

\* KnownHosts::find at time t: remove_entry, then re-insert if not expired.
find(m, host, t) ==
    IF host \in DOMAIN m /\ as_secs(t - m[host].insert_time) <= m[host].max_age
    THEN [ret |-> TRUE, map |-> map_insert(map_remove(m, host), host, m[host])]
    ELSE [ret |-> FALSE, map |-> map_remove(m, host)]

\* Variant of clear that empties the whole map.
clear_all(m, host) == [h \in {} |-> 0]

\* KnownHosts::clear
clear(m, host) == map_remove(m, host)

\* Variant of the loop that goes on after a successful try_insert.
RECURSIVE insert_every(_, _, _, _)
insert_every(m, host, services, t) ==
    IF services = <<>> THEN [map |-> m, calls |-> <<>>]
    ELSE LET r == try_insert(m, host, Head(services), t)
             call == [srv |-> Head(services), ret |-> r.ret, same |-> r.map = m]
             rest == insert_every(r.map, host, Tail(services), t)
         IN  [map |-> rest.map, calls |-> <<call>> \o rest.calls]

\* The loop of client.rs 94-98 at time t: try_insert for each service in
\* order, stopping after the first that returns true. Gives the map it
\* leaves and the calls it made (service, return value, map left as it was).
RECURSIVE insert_first(_, _, _, _)
insert_first(m, host, services, t) ==
    IF services = <<>> THEN [map |-> m, calls |-> <<>>]
    ELSE LET r == try_insert(m, host, Head(services), t)
             call == [srv |-> Head(services), ret |-> r.ret, same |-> r.map = m]
             rest == insert_first(r.map, host, Tail(services), t)
         IN  IF r.ret
             THEN [map |-> r.map, calls |-> <<call>>]
             ELSE [map |-> rest.map, calls |-> <<call>> \o rest.calls]

\* Variant of the error return that drops the host from the cache.
request_failed_forgets(m, host) == map_remove(m, host)

\* client.rs 83, 85: `.await?` returns the error; the cache is not touched.
request_failed(m, host) == m

\* Variant of the port test that takes every URL as having no port.
port_ignored(port) == TRUE

\* client.rs 75: url.port().is_none(), for a URL that has (TRUE) or has not
\* (FALSE) an explicit port.
port_is_none(port) == ~port

\* Variant of the protocol choice that ignores the cache.
version_only(version, found) == version = "HTTP_3"

\* client.rs 72-80: the multiplexed path is taken for an HTTP/3 request
\* and for a host the cache knows.
should_http3(version, found) == version = "HTTP_3" \/ found

\* A task's locals inside Client::execute.
Idle == [pc |-> "idle", host |-> <<>>, port |-> FALSE, http3 |-> FALSE]

\* The execute step just taken.
Exec(op, host) ==
    [op |-> op, host |-> host, port |-> FALSE, version |-> "none",
     consulted |-> FALSE,
     had |-> FALSE, found |-> FALSE, http3 |-> FALSE, alt_used |-> None,
     hdr |-> None, parsed |-> "none",
     calls |-> <<>>, ret |-> "none"]

Max(S) == CHOOSE x \in S : \A y \in S : y <= x

Min2(x, y) == IF x <= y THEN x ELSE y

\* The tick up to which (exclusive) an advertisement received at tick t
\* promises the multiplexed path for host: the largest max-age among its
\* services that name "h3", port 443 and no other host; 0 if it has none.
Promised(host, services, t) ==
    LET E == {i \in 1..Len(services) :
                 /\ services[i].id = H3Id
                 /\ services[i].port = H3Port
                 /\ services[i].host \in {<<>>, host}}
        m == Max({unwrap_or(services[i].max_age, DefaultMaxAge) : i \in E})
    IN  IF E = {} THEN 0 ELSE Min2(MaxInstant + 1, t + (m + 1) * TicksPerSec)

CacheInit ==
    /\ h3_hosts = [h \in {} |-> 0]
    /\ instant = 0
    /\ task = [t \in Tasks |-> Idle]
    /\ lastc = Exec("init", <<>>)
    /\ accepted = [h \in Hosts |-> None]
    /\ advertised = [h \in Hosts |-> 0]

----------------------------------------------------------------------------
(* Pool: actions *)

PoolInit ==
    /\ connecting = {}
    /\ idle_conns = [k \in {} |-> 0]
    /\ close_rx = [i \in ConnIds |-> "none"]
    /\ nconn = 0
    /\ pc = [c \in Callers |-> "idle"]
    /\ key = [c \in Callers |-> NoKey]
    /\ now = 0
    /\ lastp = Step("init", 0, NoKey, "none", 0)
    /\ abandoned = {}

\* Mutex::lock() by caller c on a free mutex: c holds the guard.
lock(mutex, c) == c

\* Variant in which the guard outlives the function that took it.
guard_kept(mutex) == mutex

\* The guard is a local (or a temporary) of a synchronous function and is
\* dropped when the function returns: the mutex is free again.
drop_guard(mutex) == 0

\* Positions inside the three Pool functions, where the pool guard is alive.
InPool == {"in_try_pool", "in_connecting", "in_new_connection"}

\* Positions inside the KnownHosts functions, where the map guard is alive.
InCache == {"in_find", "in_update"}

\* Positions at which a caller is about to call lock().
WantsPool == {"try_pool", "connecting", "new_connection"}

WantsCache == {"find", "update"}

\* Suspension points: the .await of connector.connect, of
\* pooled.send_request and of send_h1h2_request.
AwaitPoints == {"connect_await", "send_await", "h1_await"}

LockInit ==
    /\ pool_mutex = 0
    /\ cache_mutex = 0
    /\ lpc = [c \in Callers |-> "idle"]

StreamInit ==
    /\ read_future = NoFut
    /\ write_future = NoFut
    /\ shutdown_future = NoFut
    /\ nops = 0
    /\ rbuf = 0
    /\ eof = FALSE
    /\ wbuf = 0
    /\ lasts = Call("init", "none", 0, 0, "none", 0, FALSE)

ParseInit ==
    /\ alt_svc = <<>>
    /\ parse_result = parse(<<>>)

Init == PoolInit /\ StreamInit /\ CacheInit /\ ParseInit /\ LockInit

\* Client::get_pooled_client entered: Pool::try_pool(&key), one lock acquisition
try_pool(c, k) ==
    /\ pc[c] = "idle"
    /\ IF k \in DOMAIN idle_conns /\ is_invalid(chan_of(idle_conns, k))
       THEN \* dead entry: removed (its receiver dropped with it), None
            /\ idle_conns' = map_remove(idle_conns, k)
            /\ close_rx' = [close_rx EXCEPT ![idle_conns[k].client] = "none"]
            /\ pc' = [pc EXCEPT ![c] = "connecting"]
            /\ key' = [key EXCEPT ![c] = k]
            /\ lastp' = Step("try_pool", c, k, "None", idle_conns[k].client)
       ELSE IF k \in DOMAIN idle_conns
       THEN \* live entry: conn.pool(), get_pooled_client returns Ok(client)
            /\ idle_conns' = [idle_conns EXCEPT ![k] = PoolConnection_pool(idle_conns[k], now)]
            /\ lastp' = Step("try_pool", c, k, "Some", idle_conns[k].client)
            /\ UNCHANGED <<close_rx, pc, key>>
       ELSE \* no entry: None
            /\ pc' = [pc EXCEPT ![c] = "connecting"]
            /\ key' = [key EXCEPT ![c] = k]
            /\ lastp' = Step("try_pool", c, k, "None", 0)
            /\ UNCHANGED <<idle_conns, close_rx>>
    /\ UNCHANGED <<connecting, nconn, now>>
    /\ UNCHANGED abandoned
    /\ UNCHANGED <<streamVars, cacheVars, parseVars, lockVars>>

\* self.pool.connecting(key.clone())?, one lock acquisition
Pool_connecting(c) ==
    /\ pc[c] = "connecting"
    /\ LET r == connecting_insert(connecting, key[c]) IN
       /\ connecting' = r.set
       /\ IF r.ok
          THEN /\ pc' = [pc EXCEPT ![c] = "connect"]
               /\ key' = key
               /\ lastp' = Step("connecting", c, key[c], "Ok", 0)
          ELSE /\ pc' = [pc EXCEPT ![c] = "idle"]
               /\ key' = [key EXCEPT ![c] = NoKey]
               /\ lastp' = Step("connecting", c, key[c], "ErrConnecting", 0)
    /\ UNCHANGED <<idle_conns, close_rx, nconn, now>>
    /\ UNCHANGED abandoned
    /\ UNCHANGED <<streamVars, cacheVars, parseVars, lockVars>>

\* self.connector.connect(dest).await? resolves with Err(e): `?` returns it
connect_err(c) ==
    /\ pc[c] = "connect"
    /\ pc' = [pc EXCEPT ![c] = "idle"]
    /\ key' = [key EXCEPT ![c] = NoKey]
    /\ lastp' = Step("connect_err", c, key[c], "ErrConnect", 0)
    /\ UNCHANGED <<connecting, idle_conns, close_rx, nconn, now>>
    /\ UNCHANGED abandoned
    /\ UNCHANGED <<streamVars, cacheVars, parseVars, lockVars>>

\* the get_pooled_client future is dropped while suspended in connect().await
drop_future(c) ==
    /\ pc[c] = "connect"
    /\ pc' = [pc EXCEPT ![c] = "idle"]
    /\ key' = [key EXCEPT ![c] = NoKey]
    /\ lastp' = Step("drop_future", c, key[c], "Dropped", 0)
    /\ UNCHANGED <<connecting, idle_conns, close_rx, nconn, now>>
    /\ abandoned' = abandoned \cup {key[c]}
    /\ UNCHANGED <<streamVars, cacheVars, parseVars, lockVars>>

\* self.connector.connect(dest).await resolves with Ok((driver, tx)) and, in the
\* same poll, Pool::new_connection(key, driver, tx) runs: channel + watcher task,
\* then under one lock the entry is inserted and the key leaves `connecting`
new_connection(c) ==
    /\ pc[c] = "connect"
    /\ nconn < MaxConns
    /\ nconn' = nconn + 1
    /\ LET k == key[c]
           id == nconn + 1
           old == IF k \in DOMAIN idle_conns THEN {idle_conns[k].client} ELSE {} IN
       /\ close_rx' = [i \in ConnIds |->
                          IF i = id THEN "empty"
                          ELSE IF i \in old THEN "none"
                          ELSE close_rx[i]]
       /\ idle_conns' = map_insert(idle_conns, k, PoolConnection_new(id, now))
       /\ connecting' = connecting_remove(connecting, k).set
       /\ lastp' = Step("new_connection", c, k,
                        IF connecting_remove(connecting, k).existed
                        THEN "existed" ELSE "not_existed", id)
    /\ pc' = [pc EXCEPT ![c] = "idle"]
    /\ key' = [key EXCEPT ![c] = NoKey]
    /\ UNCHANGED <<now>>
    /\ UNCHANGED abandoned
    /\ UNCHANGED <<streamVars, cacheVars, parseVars, lockVars>>

\* the watcher task: driver.wait_idle().await resolved, close_tx.send(e)
watcher_send(id) ==
    /\ close_rx[id] = "empty"
    /\ close_rx' = [close_rx EXCEPT ![id] = "msg"]
    /\ lastp' = Step("watcher_send", 0, NoKey, "none", id)
    /\ UNCHANGED <<connecting, idle_conns, nconn, pc, key, now>>
    /\ UNCHANGED abandoned
    /\ UNCHANGED <<streamVars, cacheVars, parseVars, lockVars>>

\* the watcher task is dropped before wait_idle resolves: close_tx dropped
watcher_dropped(id) ==
    /\ close_rx[id] = "empty"
    /\ close_rx' = [close_rx EXCEPT ![id] = "disc"]
    /\ lastp' = Step("watcher_dropped", 0, NoKey, "none", id)
    /\ UNCHANGED <<connecting, idle_conns, nconn, pc, key, now>>
    /\ UNCHANGED abandoned
    /\ UNCHANGED <<streamVars, cacheVars, parseVars, lockVars>>

\* time passes
Tick ==
    /\ now < MaxTime
    /\ now' = now + 1
    /\ lastp' = Step("tick", 0, NoKey, "none", 0)
    /\ UNCHANGED <<connecting, idle_conns, close_rx, nconn, pc, key>>
    /\ UNCHANGED abandoned
    /\ UNCHANGED <<streamVars, cacheVars, parseVars, lockVars>>

PoolNext ==
    \/ \E c \in Callers, k \in Keys : try_pool(c, k)
    \/ \E c \in Callers : Pool_connecting(c)
    \/ \E c \in Callers : connect_err(c)
    \/ \E c \in Callers : drop_future(c)
    \/ \E c \in Callers : new_connection(c)
    \/ \E id \in ConnIds : watcher_send(id)
    \/ \E id \in ConnIds : watcher_dropped(id)
    \/ Tick

SpecPool == Init /\ [][PoolNext]_vars

----------------------------------------------------------------------------
(* HyperStream: actions *)

\* hyper::rt::Read::poll_read with n bytes of space in the cursor
poll_read(n, first, len) ==
    LET p == poll_future_would_block(read_future, first, len)
        s1 == IF p.polled # 0 /\ ~p.pending
              THEN after_fill(p.res, p.len, rbuf, eof)
              ELSE [rbuf |-> rbuf, eof |-> eof]
        io == sync_read(s1.rbuf, s1.eof, n) IN
    /\ IF p.pending
       THEN /\ read_future' = p.fut
            /\ lasts' = Call("poll_read", "Pending", 0, p.polled, "none", 0, FALSE)
            /\ UNCHANGED <<nops, rbuf, eof>>
       ELSE IF io.kind = "Ok"
       THEN \* read_buf copied io.len bytes and advanced the cursor
            /\ read_future' = NoFut
            /\ rbuf' = s1.rbuf - io.len
            /\ eof' = s1.eof
            /\ lasts' = Synced(Call("poll_read", "Ok", io.len, p.polled, p.res, 0, FALSE), io.kind)
            /\ UNCHANGED nops
       ELSE IF io.kind # "WouldBlock"
       THEN \* any other error of the synchronous read is returned
            /\ read_future' = NoFut
            /\ rbuf' = s1.rbuf
            /\ eof' = s1.eof
            /\ lasts' = Synced(Call("poll_read", "Err", 0, p.polled, p.res, 0, FALSE), io.kind)
            /\ UNCHANGED nops
       ELSE \* WouldBlock: store inner.fill_read_buf(), wake, Pending
            /\ nops < MaxOps
            /\ nops' = nops + 1
            /\ read_future' = new_future(nops + 1)
            /\ rbuf' = s1.rbuf
            /\ eof' = s1.eof
            /\ lasts' = Synced(Call("poll_read", "Pending", 0, p.polled, p.res, nops + 1, TRUE),
                                 io.kind)
    /\ UNCHANGED <<write_future, shutdown_future, wbuf>>
    /\ UNCHANGED <<poolVars, cacheVars, parseVars, lockVars>>

\* hyper::rt::Write::poll_write with n bytes offered
poll_write(n, first) ==
    /\ IF write_blocked(shutdown_future)
       THEN /\ lasts' = Blocked("poll_write")
            /\ UNCHANGED <<write_future, nops, wbuf>>
       ELSE LET p == poll_future_would_block(write_future, first, 0)
                w1 == IF p.polled # 0 /\ ~p.pending THEN after_flush(p.res, wbuf) ELSE wbuf
                io == sync_write(w1, n) IN
            IF p.pending
            THEN /\ write_future' = p.fut
                 /\ lasts' = Call("poll_write", "Pending", 0, p.polled, "none", 0, FALSE)
                 /\ UNCHANGED <<nops, wbuf>>
            ELSE IF io.kind = "Ok"
            THEN \* io::Write::write accepted io.len bytes
                 /\ write_future' = NoFut
                 /\ wbuf' = w1 + io.len
                 /\ lasts' = Synced(Call("poll_write", "Ok", io.len, p.polled, p.res, 0, FALSE), io.kind)
                 /\ UNCHANGED nops
            ELSE IF io.kind # "WouldBlock"
            THEN \* any other error of the synchronous write is returned
                 /\ write_future' = NoFut
                 /\ wbuf' = w1
                 /\ lasts' = Synced(Call("poll_write", "Err", 0, p.polled, p.res, 0, FALSE), io.kind)
                 /\ UNCHANGED nops
            ELSE \* WouldBlock: store inner.flush_write_buf(), wake, Pending
                 /\ nops < MaxOps
                 /\ nops' = nops + 1
                 /\ write_future' = new_future(nops + 1)
                 /\ wbuf' = w1
                 /\ lasts' = Synced(Call("poll_write", "Pending", 0, p.polled, p.res, nops + 1, TRUE),
                                 io.kind)
    /\ UNCHANGED <<read_future, shutdown_future, rbuf, eof>>
    /\ UNCHANGED <<poolVars, cacheVars, parseVars, lockVars>>

\* hyper::rt::Write::poll_flush
poll_flush(first) ==
    /\ IF write_blocked(shutdown_future)
       THEN /\ lasts' = Blocked("poll_flush")
            /\ UNCHANGED <<write_future, nops, wbuf>>
       ELSE LET p == poll_future(write_future, first, nops + 1) IN
            /\ p.started # 0 => nops < MaxOps
            /\ nops' = IF p.started # 0 THEN nops + 1 ELSE nops
            /\ write_future' = p.fut
            /\ IF p.pending
               THEN /\ lasts' = Call("poll_flush", "Pending", 0, p.polled, "none", p.started, FALSE)
                    /\ wbuf' = wbuf
               ELSE /\ lasts' = Call("poll_flush", IF p.res = "ok" THEN "Ok" ELSE "Err", 0,
                                     p.polled, p.res, p.started, FALSE)
                    /\ wbuf' = after_flush(p.res, wbuf)
    /\ UNCHANGED <<read_future, shutdown_future, rbuf, eof>>
    /\ UNCHANGED <<poolVars, cacheVars, parseVars, lockVars>>

\* hyper::rt::Write::poll_shutdown
poll_shutdown(first) ==
    /\ IF shutdown_blocked(write_future)
       THEN /\ lasts' = Blocked("poll_shutdown")
            /\ UNCHANGED <<shutdown_future, nops>>
       ELSE LET p == poll_future(shutdown_future, first, nops + 1) IN
            /\ p.started # 0 => nops < MaxOps
            /\ nops' = IF p.started # 0 THEN nops + 1 ELSE nops
            /\ shutdown_future' = p.fut
            /\ lasts' = Call("poll_shutdown",
                             IF p.pending THEN "Pending" ELSE IF p.res = "ok" THEN "Ok" ELSE "Err",
                             0, p.polled, p.res, p.started, FALSE)
    /\ UNCHANGED <<read_future, write_future, rbuf, eof, wbuf>>
    /\ UNCHANGED <<poolVars, cacheVars, parseVars, lockVars>>

\* the runtime completes the read the inner stream has in flight
read_completes(res, len) ==
    /\ read_future.st = "inflight"
    /\ read_future' = [read_future EXCEPT !.st = res, !.len = IF res = "ok" THEN len ELSE 0]
    /\ lasts' = Call("read_completes", "none", 0, 0, "none", 0, FALSE)
    /\ UNCHANGED <<write_future, shutdown_future, nops, rbuf, eof, wbuf>>
    /\ UNCHANGED <<poolVars, cacheVars, parseVars, lockVars>>

\* the runtime completes the write-buffer flush the inner stream has in flight
write_completes(res) ==
    /\ write_future.st = "inflight"
    /\ write_future' = [write_future EXCEPT !.st = res]
    /\ lasts' = Call("write_completes", "none", 0, 0, "none", 0, FALSE)
    /\ UNCHANGED <<read_future, shutdown_future, nops, rbuf, eof, wbuf>>
    /\ UNCHANGED <<poolVars, cacheVars, parseVars, lockVars>>

\* the runtime completes the shutdown the inner stream has in flight
shutdown_completes(res) ==
    /\ shutdown_future.st = "inflight"
    /\ shutdown_future' = [shutdown_future EXCEPT !.st = res]
    /\ lasts' = Call("shutdown_completes", "none", 0, 0, "none", 0, FALSE)
    /\ UNCHANGED <<read_future, write_future, nops, rbuf, eof, wbuf>>
    /\ UNCHANGED <<poolVars, cacheVars, parseVars, lockVars>>

StreamNext ==
    \/ \E n \in 1..MaxBuf, first \in FirstPoll, len \in 0..RCap : poll_read(n, first, len)
    \/ \E n \in 1..MaxBuf, first \in FirstPoll : poll_write(n, first)
    \/ \E first \in FirstPoll : poll_flush(first)
    \/ \E first \in FirstPoll : poll_shutdown(first)
    \/ \E res \in {"ok", "err"}, len \in 0..RCap : read_completes(res, len)
    \/ \E res \in {"ok", "err"} : write_completes(res)
    \/ \E res \in {"ok", "err"} : shutdown_completes(res)

SpecStream == Init /\ [][StreamNext]_vars

----------------------------------------------------------------------------
(* Client::execute (client.rs 66-105): actions *)

\* Lines 69-86: pick the protocol, consulting the cache when the URL has
\* no explicit port, and send the request.
execute_begin(t, host, port, version) ==
    /\ task[t].pc = "idle"
    /\ LET consulted == port_is_none(port)
           f == find(h3_hosts, host, instant)
           found == consulted /\ f.ret
           http3 == should_http3(version, found)
       IN  /\ h3_hosts' = IF consulted THEN f.map ELSE h3_hosts
           /\ task' = [task EXCEPT ![t] =
                  [pc |-> "await", host |-> host, port |-> port, http3 |-> http3]]
           /\ lastc' = [Exec("begin", host) EXCEPT
                  !.port = port, !.version = version, !.consulted = consulted,
                  !.http3 = http3,
                  !.had = (consulted /\ host \in DOMAIN h3_hosts), !.found = found,
                  !.alt_used = IF found THEN Some(host) ELSE None]
    /\ UNCHANGED <<instant, accepted, advertised>>
    /\ UNCHANGED <<poolVars, streamVars, parseVars, lockVars>>

\* Lines 83, 85: the request fails and `?` returns the error.
execute_fail(t) ==
    /\ task[t].pc = "await"
    /\ task' = [task EXCEPT ![t] = Idle]
    /\ lastc' = [Exec("fail", task[t].host) EXCEPT
           !.port = task[t].port, !.http3 = task[t].http3, !.ret = "Err"]
    /\ h3_hosts' = request_failed(h3_hosts, task[t].host)
    /\ UNCHANGED <<instant, accepted, advertised>>
    /\ UNCHANGED <<poolVars, streamVars, parseVars, lockVars>>

\* Lines 87-104: the response arrives; its Alt-Svc value, if it is text that
\* parses, is a clear directive or a list of services, which are tried in
\* order up to the first that try_insert accepts; then Ok(res) is returned.
execute_response(t, hdr) ==
    /\ task[t].pc = "await"
    /\ LET host == task[t].host
           step == [Exec("response", host) EXCEPT
                       !.port = task[t].port,
                       !.http3 = task[t].http3, !.hdr = hdr, !.ret = "Ok",
                       !.had = (host \in DOMAIN h3_hosts)]
           utf8 == from_utf8(hdr[1])
           services == Parsed[utf8.text]
           loop == insert_first(h3_hosts, host, services.services, instant)
           promise == Promised(host, services.services, instant)
       IN  IF hdr = None \/ ~utf8.ok
           THEN /\ lastc' = step
                /\ UNCHANGED <<h3_hosts, accepted, advertised>>
           ELSE IF services.kind = "Err"
           THEN /\ lastc' = [step EXCEPT !.parsed = "Err"]
                /\ UNCHANGED <<h3_hosts, accepted, advertised>>
           ELSE IF services.kind = "Clear"
           THEN /\ h3_hosts' = clear(h3_hosts, host)
                /\ lastc' = [step EXCEPT !.parsed = "Clear"]
                /\ accepted' = [accepted EXCEPT ![host] = None]
                /\ advertised' = [advertised EXCEPT ![host] = 0]
           ELSE /\ h3_hosts' = loop.map
                /\ lastc' = [step EXCEPT !.parsed = "Services", !.calls = loop.calls]
                /\ accepted' = IF \E i \in 1..Len(loop.calls) : loop.calls[i].ret
                               THEN [accepted EXCEPT ![host] = Some(loop.map[host])]
                               ELSE accepted
                /\ advertised' = IF promise > advertised[host]
                                 THEN [advertised EXCEPT ![host] = promise]
                                 ELSE advertised
    /\ task' = [task EXCEPT ![t] = Idle]
    /\ UNCHANGED instant
    /\ UNCHANGED <<poolVars, streamVars, parseVars, lockVars>>

\* Time passes.
Elapse ==
    /\ instant < MaxInstant
    /\ instant' = instant + 1
    /\ lastc' = Exec("elapse", <<>>)
    /\ UNCHANGED <<h3_hosts, task, accepted, advertised>>
    /\ UNCHANGED <<poolVars, streamVars, parseVars, lockVars>>

CacheNext ==
    \/ \E t \in Tasks, host \in Hosts, port \in BOOLEAN, version \in Versions :
           execute_begin(t, host, port, version)
    \/ \E t \in Tasks : execute_fail(t)
    \/ \E t \in Tasks, hdr \in HeaderValues : execute_response(t, hdr)
    \/ Elapse

SpecCache == Init /\ [][CacheNext]_vars


----------------------------------------------------------------------------
(* Claims about the pool, checked under SpecPool *)

\* C1: when connector.connect fails after Pool::connecting succeeded, the key
\* has left `connecting` by the time get_pooled_client returns the error.
C1_KeyReleasedOnConnectError ==
    lastp.op = "connect_err" => lastp.key \notin connecting

C4_OneConnectPerKey ==
    /\ \A k \in Keys : Cardinality({c \in Callers : InFlight(c) /\ key[c] = k}) <= 1
    /\ \A c \in Callers : InFlight(c) => key[c] \in connecting
    /\ (lastp.op = "connecting" /\ lastp.ret = "Ok")
          => /\ InFlight(lastp.c)
             /\ \A d \in Callers \ {lastp.c} : ~(InFlight(d) /\ key[d] = lastp.key)

C4_Witness ==
    \E c, d \in Callers :
        /\ c # d
        /\ InFlight(c)
        /\ pc[d] = "connecting"
        /\ key[d] = key[c]

\* C6: a try_pool for a key whose entry's channel holds the watcher's message, or
\* has lost its sender, returns None and leaves no entry for the key.
C6_DeadEntryEvicted ==
    [][ ( /\ lastp'.op = "try_pool"
          /\ lastp'.key \in DOMAIN idle_conns
          /\ chan_of(idle_conns, lastp'.key) \in {"msg", "disc"} )
        => ( /\ lastp'.ret = "None"
             /\ lastp'.key \notin DOMAIN idle_conns' ) ]_vars

C6_Witness ==
    /\ lastp.op = "try_pool"
    /\ lastp.ret = "None"
    /\ lastp.client # 0
    /\ lastp.key \notin DOMAIN idle_conns

\* C9: a get_pooled_client for a key whose entry's channel is empty returns a
\* clone of the entry's client, sets the entry's idle_timeout to now, keeps the
\* entry, leaves `connecting` alone and does not reach the connector.
C9_LiveEntryReused ==
    [][ ( /\ lastp'.op = "try_pool"
          /\ lastp'.key \in DOMAIN idle_conns
          /\ chan_of(idle_conns, lastp'.key) = "empty" )
        => ( /\ lastp'.ret = "Some"
             /\ lastp'.client = idle_conns[lastp'.key].client
             /\ lastp'.key \in DOMAIN idle_conns'
             /\ idle_conns'[lastp'.key].client = idle_conns[lastp'.key].client
             /\ idle_conns'[lastp'.key].idle_timeout = now
             /\ connecting' = connecting
             /\ nconn' = nconn
             /\ pc'[lastp'.c] = "idle" ) ]_vars

C9_Witness ==
    /\ lastp.op = "try_pool"
    /\ lastp.ret = "Some"
    /\ now > 0
    /\ idle_conns[lastp.key].idle_timeout = now

----------------------------------------------------------------------------
(* Claims about the stream adapter, checked under SpecStream *)

\* C2: the write slot and the shutdown slot are never both occupied.
C2_WriteShutdownExclusive ==
    ~(write_future # NoFut /\ shutdown_future # NoFut)

C2_Witness ==
    /\ shutdown_future # NoFut
    /\ lasts = Blocked("poll_write")

\* C5: an error of the read or flush operation behind poll_read / poll_write
\* is returned by the call that observes it, and that call starts no new
\* operation.
C5_ReadWriteErrorReturned ==
    (lasts.op \in {"poll_read", "poll_write"} /\ lasts.observed = "err")
        => (lasts.ret = "Err" /\ lasts.started = 0)

\* C7: poll_shutdown with the write slot occupied returns Pending, starts and
\* polls nothing and changes no slot; with the write slot empty it polls the
\* shutdown operation, starting it when none is stored.
C7_ShutdownWaitsForWrite ==
    [][ lasts'.op = "poll_shutdown"
        => /\ write_future # NoFut
              => /\ lasts'.ret = "Pending"
                 /\ lasts'.started = 0
                 /\ lasts'.polled = 0
                 /\ <<read_future, write_future, shutdown_future>>'
                      = <<read_future, write_future, shutdown_future>>
           /\ write_future = NoFut
              => /\ lasts'.polled # 0
                 /\ shutdown_future = NoFut => lasts'.started = lasts'.polled ]_vars

C7_Witness ==
    /\ lasts = Blocked("poll_shutdown")
    /\ write_future.st \in {"inflight", "ok", "err"}
    /\ shutdown_future = NoFut

\* C8: a poll_read that finds its read operation unresolved returns Pending,
\* starts no operation and leaves that operation in the read slot.
C8_PendingReadRepolled ==
    [][ ( /\ lasts'.op = "poll_read"
          /\ \/ read_future.st = "inflight"
             \/ read_future.st = "new" /\ lasts'.observed = "none" )
        => ( /\ lasts'.ret = "Pending"
             /\ lasts'.started = 0
             /\ lasts'.observed = "none"
             /\ lasts'.polled = read_future.id
             /\ read_future'.id = read_future.id
             /\ read_future'.st = "inflight"
             /\ nops' = nops ) ]_vars

C8_Witness ==
    /\ lasts.op = "poll_read"
    /\ lasts.ret = "Pending"
    /\ lasts.started = 0
    /\ lasts.polled # 0
    /\ read_future.id = lasts.polled

\* the slot a call drives, before the call
SlotOf(op) ==
    CASE op = "poll_read" -> read_future
      [] op \in {"poll_write", "poll_flush"} -> write_future
      [] op = "poll_shutdown" -> shutdown_future
      [] OTHER -> NoFut

\* C10: a call that finds its slot's operation in flight polls that operation and
\* starts none; an operation is started only into a slot that is empty or whose
\* operation this call saw resolve; and an operation leaves its slot in the call
\* that observes its resolution and in no other.
C10_OneOperationPerSlot ==
    [][ /\ SlotOf(lasts'.op).st = "inflight"
           => /\ lasts'.polled = SlotOf(lasts'.op).id
              /\ lasts'.started = 0
              /\ lasts'.ret = "Pending"
        /\ lasts'.started # 0
           => \/ SlotOf(lasts'.op) = NoFut
              \/ /\ lasts'.polled = SlotOf(lasts'.op).id
                 /\ lasts'.observed \in {"ok", "err"}
        /\ \A s \in {<<read_future, read_future'>>, <<write_future, write_future'>>,
                     <<shutdown_future, shutdown_future'>>} :
              /\ (s[1] # NoFut /\ s[2].id # s[1].id)
                    => (lasts'.polled = s[1].id /\ lasts'.observed \in {"ok", "err"})
              /\ (s[1] # NoFut /\ lasts'.polled = s[1].id /\ lasts'.observed \in {"ok", "err"})
                    => s[2].id # s[1].id ]_vars

C10_Witness ==
    /\ lasts.op = "poll_flush"
    /\ lasts.ret \in {"Ok", "Err"}
    /\ lasts.polled # 0
    /\ lasts.started = 0
    /\ write_future = NoFut

\* C11: while the read operation is unresolved no step changes the read buffer,
\* and while the write/flush operation is unresolved no step changes the write
\* buffer; a poll_read / poll_write that finds its operation unresolved returns
\* Pending without performing its synchronous buffer operation.
C11_NoBufferAccessWhileInFlight ==
    [][ /\ read_future.st = "inflight" => (rbuf' = rbuf /\ eof' = eof)
        /\ write_future.st = "inflight" => wbuf' = wbuf
        /\ ( \/ /\ lasts'.op = "poll_read"
                /\ \/ read_future.st = "inflight"
                   \/ read_future.st = "new" /\ lasts'.observed = "none"
             \/ /\ lasts'.op = "poll_write"
                /\ \/ write_future.st = "inflight"
                   \/ write_future.st = "new" /\ lasts'.observed = "none" )
           => ( /\ lasts'.ret = "Pending"
                /\ lasts'.sync = "none"
                /\ lasts'.n = 0
                /\ <<rbuf, eof, wbuf>>' = <<rbuf, eof, wbuf>> ) ]_vars

C11_Witness ==
    /\ lasts.op = "poll_write"
    /\ lasts.ret = "Pending"
    /\ lasts.sync = "none"
    /\ lasts.polled # 0
    /\ write_future.st = "inflight"
    /\ wbuf > 0

\* C12: between a caller's try_pool that misses and its insertion of the key into
\* `connecting`, no other caller's try_pool, Pool::connecting or new_connection
\* takes effect.
C12_LookupAndInsertUnderOneLock ==
    [][ \A c \in Callers :
          (pc[c] = "connecting" /\ lastp'.op \in {"try_pool", "connecting", "new_connection"})
             => lastp'.c = c ]_vars

\* C20: a key whose attempt was dropped inside connect().await stays in
\* `connecting` in every later state, and every later Pool::connecting for it
\* (a get_pooled_client that missed the pool) fails with the duplicate error.
C20_AbandonedKeyStuck ==
    /\ abandoned \subseteq connecting
    /\ (lastp.op = "connecting" /\ lastp.key \in abandoned) => lastp.ret = "ErrConnecting"

C20_Witness ==
    /\ lastp.op = "connecting"
    /\ lastp.key \in abandoned
    /\ lastp.ret = "ErrConnecting"
    /\ \A c \in Callers : ~InFlight(c)

----------------------------------------------------------------------------
(* altsvc::parse on its own: texts built from parameter fragments *)

\* Bound: longest text handed to parse, in characters.
MaxText == 22

\* h3=':443'
Par_h3 ==
    <<"h", "3", "=", "\"", ":", "4", "4", "3", "\"">>

\* h3='b:443'
Par_h3_b ==
    <<"h", "3", "=", "\"", "b", ":", "4", "4", "3", "\"">>

\* h2=:8443
Par_h2_bare ==
    <<"h", "2", "=", ":", "8", "4", "4", "3">>

\* ma=3600
Par_ma3600 ==
    <<"m", "a", "=", "3", "6", "0", "0">>

\* ma=0
Par_ma0 ==
    <<"m", "a", "=", "0">>

\* ma=x
Par_ma_bad ==
    <<"m", "a", "=", "x">>

\* persist=1
Par_persist1 ==
    <<"p", "e", "r", "s", "i", "s", "t", "=", "1">>

\* persist=2
Par_persist2 ==
    <<"p", "e", "r", "s", "i", "s", "t", "=", "2">>

\* persist=x
Par_persist_bad ==
    <<"p", "e", "r", "s", "i", "s", "t", "=", "x">>

\* persist
Par_persist_bare ==
    <<"p", "e", "r", "s", "i", "s", "t">>

\* h3=':x'
Par_port_bad ==
    <<"h", "3", "=", "\"", ":", "x", "\"">>

\* h3='443'
Par_no_colon ==
    <<"h", "3", "=", "\"", "4", "4", "3", "\"">>

\* h3=':65536'
Par_port_big ==
    <<"h", "3", "=", "\"", ":", "6", "5", "5", "3", "6", "\"">>

\* a=b=c
Par_two_eq ==
    <<"a", "=", "b", "=", "c">>

\* clear
Par_clear ==
    <<"c", "l", "e", "a", "r">>

Params ==
    {Par_h3,
     Par_h3_b,
     Par_h2_bare,
     Par_ma3600,
     Par_ma0,
     Par_ma_bad,
     Par_persist1,
     Par_persist2,
     Par_persist_bad,
     Par_persist_bare,
     Par_port_bad,
     Par_no_colon,
     Par_port_big,
     Par_two_eq,
     Par_clear}

\* What stands between two fragments: the end of a parameter, the end of
\* an entry, or the end of an entry followed by an empty entry.
Separators == {<<";">>, <<";", " ">>, <<",">>, <<" ", ",", " ", ",">>}

\* parse is called with a single fragment (the first call).
parse_first(p) ==
    /\ alt_svc = <<>>
    /\ alt_svc' = p
    /\ parse_result' = parse(alt_svc')
    /\ UNCHANGED <<poolVars, streamVars, cacheVars, lockVars>>

\* parse is called with the previous text extended by one more fragment.
parse_more(sep, p) ==
    /\ alt_svc # <<>>
    /\ Len(alt_svc) + Len(sep) + Len(p) <= MaxText
    /\ alt_svc' = alt_svc \o sep \o p
    /\ parse_result' = parse(alt_svc')
    /\ UNCHANGED <<poolVars, streamVars, cacheVars, lockVars>>

ParseNext ==
    \/ \E p \in Params : parse_first(p)
    \/ \E sep \in Separators, p \in Params : parse_more(sep, p)

SpecParse == Init /\ [][ParseNext]_vars

----------------------------------------------------------------------------
(* altsvc::parse: what a text says, read off the text itself *)

NotEmpty(t) == t # <<>>

\* The non-empty pieces of a text between occurrences of sep, without the
\* whitespace around them.
Pieces(text, sep) ==
    SelectSeq([i \in 1..Len(split(text, sep)) |-> trim(split(text, sep)[i])], NotEmpty)

\* Key and value of a parameter "key=value".
KeyOf(param) == split(param, "=")[1]

ValueOf(param) == split(param, "=")[2]

MaKey == <<"m", "a">>

PersistKey == <<"p", "e", "r", "s", "i", "s", "t">>

\* The service an entry describes: id, host and port from its last
\* parameter that is neither ma nor persist, max-age from its last ma,
\* persist set when some persist parameter has the value 1.
ServiceOf(entry) ==
    LET ps == Pieces(entry, ";")
        catch == {i \in 1..Len(ps) : KeyOf(ps[i]) \notin {MaKey, PersistKey}}
        mas == {i \in 1..Len(ps) : KeyOf(ps[i]) = MaKey}
        auth == split(trim_matches(ValueOf(ps[Max(catch)]), {"\""}), ":")
    IN  [id |-> IF catch = {} THEN <<>> ELSE KeyOf(ps[Max(catch)]),
         host |-> IF catch = {} THEN <<>> ELSE auth[1],
         port |-> IF catch = {} THEN 0 ELSE digits_value(auth[2]),
         max_age |-> IF mas = {} THEN None ELSE Some(digits_value(ValueOf(ps[Max(mas)]))),
         persist |-> \E i \in 1..Len(ps) :
                        KeyOf(ps[i]) = PersistKey /\ ValueOf(ps[i]) = <<"1">>]

\* The text  h3=":443"; ma=3600
H3Ma3600 == Par_h3 \o <<";", " ">> \o Par_ma3600

\* C27: when parse yields a service list, it has one service per non-empty
\* comma-separated entry: id is the key of the entry's catch-all parameter,
\* host and port come from that parameter's value without its quotes,
\* max-age is the value of ma (absent without ma), persist is true only with
\* persist=1; the text h3=":443"; ma=3600 gives one service with id "h3",
\* empty host, port 443, max-age 3600, persist false.
C27_ParseYieldsServices ==
    /\ parse_result.kind = "Services" =>
           LET entries == Pieces(alt_svc, ",")
           IN  /\ Len(parse_result.services) = Len(entries)
               /\ \A i \in 1..Len(entries) : parse_result.services[i] = ServiceOf(entries[i])
    /\ alt_svc = H3Ma3600 =>
           parse_result = Services(<<[id |-> <<"h", "3">>, host |-> <<>>, port |-> 443,
                                      max_age |-> <<3600>>, persist |-> FALSE]>>)

\* parse has returned two services for a text with an empty entry between
\* two entries, the second with persist set.
C27_Witness ==
    /\ parse_result.kind = "Services"
    /\ Len(parse_result.services) = 2
    /\ Len(split(alt_svc, ",")) = 3
    /\ parse_result.services[1].id = <<"h", "3">>
    /\ parse_result.services[2].persist

\* The parameters of a text: entry by entry, the non-empty trimmed pieces
\* between semicolons.
ParamsOf(text) ==
    LET entries == Pieces(text, ",")
    IN  [i \in 1..Len(entries) |-> Pieces(entries[i], ";")]

\* The value of a catch-all parameter without its quotes.
AuthorityOf(param) == trim_matches(ValueOf(param), {"\""})

\* What is wrong with a parameter, if anything: the error and the fragment
\* it names. A persist value that is an integer is never wrong.
Offence(param) ==
    IF Len(split(param, "=")) # 2 THEN <<"Parameter", param>>
    ELSE IF KeyOf(param) = MaKey
    THEN IF parse_u64(ValueOf(param)).ok THEN <<>> ELSE <<"MaValue", ValueOf(param)>>
    ELSE IF KeyOf(param) = PersistKey
    THEN IF parse_i32(ValueOf(param)).ok THEN <<>> ELSE <<"PersistValue", ValueOf(param)>>
    ELSE IF Len(split(AuthorityOf(param), ":")) # 2
    THEN <<"AltAuthorityValue", AuthorityOf(param)>>
    ELSE IF parse_u16(split(AuthorityOf(param), ":")[2]).ok THEN <<>>
    ELSE <<"PortNumber", split(AuthorityOf(param), ":")[2]>>

\* The positions (entry, parameter) of the parameters that are wrong, given
\* the parameters of a text.
Offences(ps) ==
    UNION {{<<i, j>> : j \in {j \in 1..Len(ps[i]) : Offence(ps[i][j]) # <<>>}} :
              i \in 1..Len(ps)}

\* The first of them in the order of the text.
FirstOffence(ps) ==
    LET offs == Offences(ps)
    IN  CHOOSE p \in offs :
            \A q \in offs : p[1] < q[1] \/ (p[1] = q[1] /\ p[2] <= q[2])

\* C28: for a text other than the clear directive, parse returns an error
\* exactly when some parameter does not have exactly one '=' or has an
\* unparsable ma, persist or authority/port value; the error is that of the
\* first such parameter, names its fragment and carries no services; a
\* persist parameter whose value is an integer other than 1 is not an error
\* and does not set the persist flag.
C28_MalformedParameterIsError ==
    LET ps == ParamsOf(alt_svc)
        offs == Offences(ps)
    IN  alt_svc # Par_clear =>
            /\ parse_result.kind = "Err" <=> offs # {}
            /\ offs # {} =>
                   LET p == FirstOffence(ps)
                       o == Offence(ps[p[1]][p[2]])
                   IN  /\ parse_result.err = o[1]
                       /\ parse_result.arg = o[2]
                       /\ parse_result.services = <<>>
            /\ offs = {} =>
                   /\ parse_result.kind = "Services"
                   /\ \A i \in 1..Len(ps) :
                          parse_result.services[i].persist =>
                              \E j \in 1..Len(ps[i]) :
                                  /\ KeyOf(ps[i][j]) = PersistKey
                                  /\ parse_i32(ValueOf(ps[i][j])).val = 1

\* parse has returned the ma error of a text whose first parameter is
\* persist=2 and which has a second malformed parameter after the bad ma.
C28_Witness ==
    /\ parse_result.kind = "Err"
    /\ parse_result.err = "MaValue"
    /\ parse_result.arg = <<"x">>
    /\ ParamsOf(alt_svc)[1][1] = Par_persist2
    /\ Cardinality(Offences(ParamsOf(alt_svc))) = 2

----------------------------------------------------------------------------
(* KnownHosts and Client::execute: claims *)

\* C13: try_insert(host, service) returns true and stores an entry for host
\* exactly when the service's protocol id is "h3", its port is 443 and its
\* host is empty or equal to host; in every other case it returns false and
\* leaves the map as it was.
C13_InsertOnlyEligible ==
    lastc.op = "response" =>
        \A i \in 1..Len(lastc.calls) :
            LET call == lastc.calls[i]
                eligible == /\ call.srv.id = <<"h", "3">>
                            /\ call.srv.port = 443
                            /\ call.srv.host \in {<<>>, lastc.host}
            IN  /\ call.ret <=> eligible
                /\ call.ret => lastc.host \in DOMAIN h3_hosts
                /\ ~call.ret => call.same

\* A response to host b advertised a service on port 8443 (refused, map as
\* it was) and then one for host b on port 443 (stored).
C13_Witness ==
    /\ lastc.op = "response"
    /\ lastc.host = <<"b">>
    /\ Len(lastc.calls) = 2
    /\ lastc.calls[1].srv.port = 8443 /\ ~lastc.calls[1].ret /\ lastc.calls[1].same
    /\ lastc.calls[2].srv.host = <<"b">> /\ lastc.calls[2].ret
    /\ <<"b">> \in DOMAIN h3_hosts

\* Whole seconds from tick t0 to the current tick, counted without as_secs.
WholeSecondsSince(t0) ==
    CHOOSE n \in 0..(MaxInstant + 1) :
        n * TicksPerSec <= instant - t0 /\ instant - t0 < (n + 1) * TicksPerSec

\* C14: find(host) returns true exactly when an entry for host is present
\* and the whole seconds elapsed since its insertion are at most its max_age
\* (elapsed = max_age is accepted, elapsed = max_age + 1 is rejected).
C14_FindWithinMaxAge ==
    [][ (lastc'.op = "begin" /\ lastc'.consulted) =>
            LET host == lastc'.host
            IN  lastc'.found <=>
                    /\ host \in DOMAIN h3_hosts
                    /\ WholeSecondsSince(h3_hosts[host].insert_time) <= h3_hosts[host].max_age
      ]_vars

\* find accepted an entry of max_age 1 a second and a half after its
\* insertion: one whole second elapsed, equal to max_age.
C14_Witness ==
    /\ lastc.op = "begin" /\ lastc.consulted /\ lastc.found
    /\ lastc.host \in DOMAIN h3_hosts
    /\ h3_hosts[lastc.host].max_age = 1
    /\ instant - h3_hosts[lastc.host].insert_time = 3

\* C15 as stated: once try_insert has stored an entry of max-age 0 for a
\* host, find(host) returns false.
C15_MaxAgeZeroNotFound ==
    [][ ( /\ lastc'.op = "begin" /\ lastc'.consulted
          /\ lastc'.host \in DOMAIN h3_hosts
          /\ h3_hosts[lastc'.host].max_age = 0 )
        => ~lastc'.found ]_vars

\* C15 (amended): once try_insert has stored an entry of max-age 0 for a
\* host, find(host) returns true until one whole second has passed since
\* the insertion, and false from then on.
C15_MaxAgeZeroFoundWithinFirstSecond ==
    [][ ( /\ lastc'.op = "begin" /\ lastc'.consulted
          /\ lastc'.host \in DOMAIN h3_hosts
          /\ h3_hosts[lastc'.host].max_age = 0 )
        => (lastc'.found <=> instant - h3_hosts[lastc'.host].insert_time < TicksPerSec) ]_vars

\* find accepted an entry of max-age 0 half a second after its insertion.
C15_Witness ==
    /\ lastc.op = "begin" /\ lastc.consulted /\ lastc.found
    /\ lastc.host \in DOMAIN h3_hosts
    /\ h3_hosts[lastc.host].max_age = 0
    /\ instant - h3_hosts[lastc.host].insert_time = 1

\* C16: find(host) on an expired entry leaves no entry for host, on an
\* unexpired entry leaves an entry for host, on an absent host changes
\* nothing; the entries of every other host stay as they were.
C16_FindFrame ==
    [][ (lastc'.op = "begin" /\ lastc'.consulted) =>
            LET host == lastc'.host
                present == host \in DOMAIN h3_hosts
                expired == WholeSecondsSince(h3_hosts[host].insert_time) > h3_hosts[host].max_age
            IN  /\ (present /\ expired) => host \notin DOMAIN h3_hosts'
                /\ (present /\ ~expired) => host \in DOMAIN h3_hosts'
                /\ ~present => h3_hosts' = h3_hosts
                /\ \A other \in Hosts \ {host} :
                       /\ other \in DOMAIN h3_hosts' <=> other \in DOMAIN h3_hosts
                       /\ other \in DOMAIN h3_hosts => h3_hosts'[other] = h3_hosts[other]
      ]_vars

\* find has just removed the expired entry of one host while the other
\* host's entry is still in the map.
C16_Witness ==
    /\ lastc.op = "begin" /\ lastc.consulted /\ lastc.had /\ ~lastc.found
    /\ lastc.host \notin DOMAIN h3_hosts
    /\ \E other \in Hosts \ {lastc.host} : other \in DOMAIN h3_hosts

\* C17: parse applied to the word clear yields the clear directive whatever
\* whitespace surrounds it: a response whose header value is "clear" with
\* leading or trailing spaces is parsed as AltService::Clear.
C17_ClearIgnoresWhitespace ==
    ( /\ lastc.op = "response"
      /\ lastc.hdr # None
      /\ from_utf8(lastc.hdr[1]).ok
      /\ trim(lastc.hdr[1]) = <<"c", "l", "e", "a", "r">> )
    => lastc.parsed = "Clear"

\* Header values with a malformed parameter that are not the word clear.
MalformedHeaders == {Hdr_then_bad, Hdr_bad_then}

\* C18: a response whose advertisement fails to parse is still returned
\* successfully and leaves the cache as it was, even when an eligible
\* service comes before the malformed fragment.
C18_MalformedHeaderDiscarded ==
    [][ ( /\ lastc'.op = "response"
          /\ lastc'.hdr \in {Some(h) : h \in MalformedHeaders} )
        => (lastc'.ret = "Ok" /\ h3_hosts' = h3_hosts) ]_vars

\* A response whose header has an eligible service and then a malformed
\* entry was returned, and its host has no entry.
C18_Witness ==
    /\ lastc.op = "response"
    /\ lastc.hdr = Some(Hdr_then_bad)
    /\ lastc.parsed = "Err"
    /\ lastc.ret = "Ok"
    /\ lastc.host \notin DOMAIN h3_hosts

\* C19 as stated: after a successful response for host h whose
\* advertisement contains an eligible service with max-age m, every later
\* request to h without explicit port, made while at most m whole seconds
\* have elapsed and with no clear for h in between, takes the multiplexed
\* path and carries Alt-Used: h.
C19_AdvertisedHostUsesHttp3 ==
    [][ ( /\ lastc'.op = "begin" /\ ~lastc'.port
          /\ instant < advertised[lastc'.host] )
        => (lastc'.http3 /\ lastc'.alt_used = Some(lastc'.host)) ]_vars

\* C19 (amended): after a successful response for host h whose
\* advertisement parses as a whole and whose first eligible service has
\* max-age m, every later request to h without explicit port, made while
\* at most m whole seconds have elapsed since that response and with no
\* clear for h and no later accepted advertisement for h in between, takes
\* the multiplexed path and carries Alt-Used: h.
C19_AcceptedHostUsesHttp3 ==
    [][ ( /\ lastc'.op = "begin" /\ ~lastc'.port
          /\ accepted[lastc'.host] # None
          /\ WholeSecondsSince(accepted[lastc'.host][1].insert_time)
                 <= accepted[lastc'.host][1].max_age )
        => (lastc'.http3 /\ lastc'.alt_used = Some(lastc'.host)) ]_vars

\* An HTTP/1.1 request without port, made a second after the host's
\* advertisement was accepted, went to the multiplexed path with Alt-Used.
C19_Witness ==
    /\ lastc.op = "begin" /\ ~lastc.port /\ lastc.version = "HTTP_11"
    /\ accepted[lastc.host] # None
    /\ instant - accepted[lastc.host][1].insert_time >= TicksPerSec
    /\ lastc.http3 /\ lastc.alt_used = Some(lastc.host)

----------------------------------------------------------------------------
(* HyperStream: further claims *)

\* C21: poll_write and poll_flush called while a shutdown operation is
\* pending return Pending without starting an underlying write or flush,
\* without accepting any of the caller's bytes and without changing any slot.
C21_WriteFlushWaitForShutdown ==
    [][ (shutdown_future # NoFut /\ lasts'.op \in {"poll_write", "poll_flush"}) =>
            /\ lasts'.ret = "Pending"
            /\ lasts'.started = 0 /\ lasts'.polled = 0
            /\ lasts'.n = 0 /\ lasts'.sync = "none"
            /\ nops' = nops /\ wbuf' = wbuf
            /\ <<read_future, write_future, shutdown_future>>'
                   = <<read_future, write_future, shutdown_future>>
      ]_vars

\* poll_write was refused while a shutdown was in flight and bytes of an
\* earlier write were still buffered.
C21_Witness ==
    /\ lasts.op = "poll_write" /\ lasts.ret = "Pending" /\ lasts.polled = 0
    /\ shutdown_future.st = "inflight"
    /\ write_future = NoFut
    /\ wbuf > 0

\* C26: an I/O error of the underlying flush or shutdown operation is the
\* result of the poll_flush / poll_shutdown call that observes its
\* completion; that call leaves the slot empty and starts no retry.
C26_FlushShutdownErrorReturned ==
    [][ /\ (lasts'.op = "poll_flush" /\ lasts'.observed = "err") =>
               /\ lasts'.ret = "Err"
               /\ write_future' = NoFut
               /\ lasts'.started \in {0, lasts'.polled}
               /\ nops' = IF write_future = NoFut THEN nops + 1 ELSE nops
        /\ (lasts'.op = "poll_shutdown" /\ lasts'.observed = "err") =>
               /\ lasts'.ret = "Err"
               /\ shutdown_future' = NoFut
               /\ lasts'.started \in {0, lasts'.polled}
               /\ nops' = IF shutdown_future = NoFut THEN nops + 1 ELSE nops
      ]_vars

\* poll_flush observed the failure of a flush that was in flight and
\* returned the error; the write slot is empty and nothing was started.
C26_Witness ==
    /\ lasts.op = "poll_flush" /\ lasts.ret = "Err" /\ lasts.observed = "err"
    /\ lasts.polled # 0 /\ lasts.started = 0
    /\ write_future = NoFut
    /\ wbuf > 0

\* C29: poll_read with the read slot empty and nothing buffered begins a
\* read operation; with the slot occupied it polls the stored operation;
\* the call that finds the operation complete leaves the read slot empty
\* and, when bytes were produced, returns Ready having advanced the cursor by
\* their number (as far as the cursor has space).
C29_ReadCompletionAdvancesCursor ==
    [][ \A n \in 1..MaxBuf, first \in FirstPoll, len \in 0..RCap :
          poll_read(n, first, len) =>
            /\ (read_future = NoFut /\ rbuf = 0 /\ ~eof)
                  => (lasts'.started # 0 /\ read_future'.id = lasts'.started)
            /\ read_future # NoFut => lasts'.polled = read_future.id
            /\ (read_future # NoFut /\ poll(read_future, first, len).ready)
                  => /\ read_future' = NoFut
                     /\ poll(read_future, first, len).res = "ok"
                           => /\ lasts'.ret = "Ok"
                              /\ lasts'.n = Min2(poll(read_future, first, len).len, n) ]_vars

\* C30: poll_shutdown never starts the shutdown operation while bytes that
\* poll_write accepted (returned Ready with their count) are still in the
\* write buffer, not yet handed to the inner stream.
C30_ShutdownAfterWrittenBytes ==
    (lasts.op = "poll_shutdown" /\ lasts.started # 0) => wbuf = 0

\* C34: while the write slot is occupied, poll_read and poll_shutdown
\* neither poll the stored write/flush operation nor change the slot, only
\* poll_write or poll_flush empty it, and every poll_shutdown returns Pending
\* without starting the shutdown, also when the operation has finished.
C34_OnlyWriteSideDrivesWriteSlot ==
    [][ write_future # NoFut
        => /\ lasts'.op \in {"poll_read", "poll_shutdown"}
              => /\ write_future' = write_future
                 /\ lasts'.polled # write_future.id
           /\ lasts'.op = "poll_shutdown"
              => /\ lasts'.ret = "Pending"
                 /\ lasts'.started = 0
                 /\ shutdown_future' = NoFut
                 /\ nops' = nops
           /\ write_future' = NoFut => lasts'.op \in {"poll_write", "poll_flush"} ]_vars

\* poll_shutdown has returned Pending although the stored flush has finished.
C34_Witness ==
    /\ lasts.op = "poll_shutdown"
    /\ lasts.ret = "Pending"
    /\ lasts.polled = 0
    /\ write_future.st = "ok"
    /\ shutdown_future = NoFut
    /\ wbuf > 0

\* C35: a poll_read or poll_write that finds its slot empty and whose
\* synchronous buffer operation would block stores a new operation in its
\* slot without polling it, wakes the waker and returns Pending; a wake-up
\* is given on this path only; and the call of the same kind that next finds
\* the stored, never polled operation polls it.
C35_WouldBlockStoresAndWakes ==
    [][ /\ (lasts'.op = "poll_read" /\ read_future = NoFut /\ lasts'.sync = "WouldBlock")
           => /\ lasts'.ret = "Pending" /\ lasts'.woke
              /\ lasts'.polled = 0
              /\ lasts'.started = nops + 1 /\ nops' = nops + 1
              /\ read_future'.id = lasts'.started /\ read_future'.st = "new"
        /\ (lasts'.op = "poll_write" /\ write_future = NoFut /\ lasts'.sync = "WouldBlock")
           => /\ lasts'.ret = "Pending" /\ lasts'.woke
              /\ lasts'.polled = 0
              /\ lasts'.started = nops + 1 /\ nops' = nops + 1
              /\ write_future'.id = lasts'.started /\ write_future'.st = "new"
        /\ lasts'.woke
           => (lasts'.op \in {"poll_read", "poll_write"} /\ lasts'.sync = "WouldBlock")
        /\ (lasts'.op = "poll_read" /\ read_future.st = "new")
           => lasts'.polled = read_future.id
        /\ (lasts'.op = "poll_write" /\ write_future.st = "new")
           => lasts'.polled = write_future.id ]_vars

\* poll_write has found the write buffer full, stored a flush it has not
\* polled, woken the waker and returned Pending.
C35_Witness ==
    /\ lasts.op = "poll_write"
    /\ lasts.sync = "WouldBlock"
    /\ lasts.polled = 0
    /\ lasts.woke
    /\ lasts.ret = "Pending"
    /\ write_future.st = "new"
    /\ write_future.id = lasts.started

\* C36: poll_read leaves the write slot, the shutdown slot and the write
\* buffer as they are and polls neither of their operations; poll_write,
\* poll_flush and poll_shutdown leave the read slot and the read buffer as
\* they are and do not poll the read; when one of these three returns
\* Pending at once (nothing polled, nothing started) it is the opposite
\* write-side slot that is occupied, never the read slot alone.
C36_ReadIndependentOfWriteSide ==
    [][ /\ lasts'.op = "poll_read"
           => /\ <<write_future, shutdown_future, wbuf>>' = <<write_future, shutdown_future, wbuf>>
              /\ lasts'.polled # 0 => lasts'.polled \notin {write_future.id, shutdown_future.id}
              /\ lasts'.started # 0 => read_future'.id = lasts'.started
        /\ lasts'.op \in {"poll_write", "poll_flush", "poll_shutdown"}
           => /\ <<read_future, rbuf, eof>>' = <<read_future, rbuf, eof>>
              /\ lasts'.polled # 0 => lasts'.polled # read_future.id
              /\ lasts'.started # 0 => lasts'.started # read_future.id
        /\ (/\ lasts'.op \in {"poll_write", "poll_flush"}
            /\ lasts'.ret = "Pending" /\ lasts'.polled = 0 /\ lasts'.started = 0)
           => shutdown_future # NoFut
        /\ (/\ lasts'.op = "poll_shutdown"
            /\ lasts'.ret = "Pending" /\ lasts'.polled = 0 /\ lasts'.started = 0)
           => write_future # NoFut ]_vars

\* poll_shutdown has started the shutdown while a read is in flight.
C36_Witness ==
    /\ lasts.op = "poll_shutdown"
    /\ lasts.started # 0
    /\ lasts.polled = lasts.started
    /\ read_future.st = "inflight"
    /\ write_future = NoFut

----------------------------------------------------------------------------
(* Pool: further claims *)

\* C22: a get_pooled_client call that finds the pooled connection of its key
\* dead evicts the entry and, in the same call, goes on to Pool::connecting
\* and the connector: the Pool::connecting that follows the eviction succeeds
\* and the call returns no error before the connector has run.
C22_EvictionThenFreshConnect ==
    [][ ( /\ lastp.op = "try_pool" /\ lastp.ret = "None" /\ lastp.client # 0
          /\ lastp'.op = "connecting" /\ lastp'.c = lastp.c )
        => (lastp'.ret = "Ok" /\ InFlight(lastp.c)') ]_vars

\* C23: whenever Pool::new_connection runs for a key, under any interleaving
\* of get_pooled_client calls, connect successes and connection deaths, the
\* key is in the connecting set at that moment (`existed` is true).
C23_KeyInConnectingAtNewConnection ==
    lastp.op = "new_connection" => lastp.ret = "existed"

\* The second connection of the run was stored while another caller was
\* inside get_pooled_client, and its key was in the connecting set.
C23_Witness ==
    /\ lastp.op = "new_connection" /\ lastp.ret = "existed" /\ lastp.client = 2
    /\ \E c \in Callers : pc[c] # "idle"

\* C24: Pool::new_connection inserts the new entry and removes the key from
\* the connecting set in one step under one lock: in the first state any
\* other pool operation can observe, the entry of this attempt is in
\* idle_conns and its key is no longer in the connecting set.
C24_InsertAndRemoveTogether ==
    lastp.op = "new_connection" =>
        /\ lastp.key \in DOMAIN idle_conns
        /\ idle_conns[lastp.key].client = lastp.client
        /\ lastp.key \notin connecting

\* new_connection has just stored an entry while another caller, between
\* its lookup and its Pool::connecting for the same key, is about to take
\* the lock.
C24_Witness ==
    /\ lastp.op = "new_connection"
    /\ lastp.key \in DOMAIN idle_conns /\ lastp.key \notin connecting
    /\ \E c \in Callers : pc[c] = "connecting" /\ key[c] = lastp.key

\* C31: an entry whose connection has died stays in idle_conns, unmodified,
\* through every step that is not a try_pool for its own key.
C31_DeadEntryStaysUntilLookup ==
    [][ \A k \in Keys :
          (/\ k \in DOMAIN idle_conns
           /\ is_invalid(chan_of(idle_conns, k))
           /\ ~(lastp'.op = "try_pool" /\ lastp'.key = k))
          => /\ k \in DOMAIN idle_conns'
             /\ idle_conns'[k] = idle_conns[k]
             /\ is_invalid(chan_of(idle_conns', k)) ]_vars

----------------------------------------------------------------------------
(* KnownHosts and Client::execute: further claims *)

\* C25: a response whose advertisement is the clear directive applies
\* clear to the request's host, and clear(host) removes the entry for host
\* unconditionally: afterwards find(host) returns false, a cache without an
\* entry for host is left as it was, a second clear changes nothing more,
\* and the entries of other hosts are unchanged.
C25_ClearRemovesHostOnly ==
    [][ (lastc'.op = "response" /\ lastc'.hdr = Some(Hdr_clear)) =>
            \E t \in Tasks :
                LET host == task[t].host
                IN  /\ task[t].pc = "await" /\ task'[t].pc = "idle"
                    /\ lastc'.host = host
                    /\ host \notin DOMAIN h3_hosts'
                    /\ ~find(h3_hosts', host, instant').ret
                    /\ host \notin DOMAIN h3_hosts => h3_hosts' = h3_hosts
                    /\ clear(h3_hosts', host) = h3_hosts'
                    /\ \A other \in Hosts \ {host} :
                           /\ other \in DOMAIN h3_hosts' <=> other \in DOMAIN h3_hosts
                           /\ other \in DOMAIN h3_hosts => h3_hosts'[other] = h3_hosts[other]
      ]_vars

\* A clear directive has just removed the entry of the request's host and
\* the other host still has its entry.
C25_Witness ==
    /\ lastc.op = "response" /\ lastc.parsed = "Clear" /\ lastc.had
    /\ lastc.host \notin DOMAIN h3_hosts
    /\ \E other \in Hosts \ {lastc.host} : other \in DOMAIN h3_hosts
\* C32: a try_insert that returns true leaves the host with the entry
\* (insertion time = time of the call, max_age = the service's ma, or 86400
\* without ma), whatever entry the host had before, and leaves the entries
\* of the other hosts as they were.
C32_InsertStoresNowAndMaxAge ==
    [][ (/\ lastc'.op = "response"
         /\ lastc'.calls # <<>>
         /\ lastc'.calls[Len(lastc'.calls)].ret)
        => LET host == lastc'.host
               srv == lastc'.calls[Len(lastc'.calls)].srv
           IN  /\ host \in DOMAIN h3_hosts'
               /\ h3_hosts'[host].insert_time = instant
               /\ h3_hosts'[host].max_age =
                      IF srv.max_age = None THEN 86400 ELSE srv.max_age[1]
               /\ \A h \in Hosts \ {host} :
                      /\ h \in DOMAIN h3_hosts' <=> h \in DOMAIN h3_hosts
                      /\ h \in DOMAIN h3_hosts => h3_hosts'[h] = h3_hosts[h] ]_vars

\* A service without ma has been stored for a host that had an entry, at a
\* later time than the start, while the other host has an entry too.
C32_Witness ==
    /\ lastc.op = "response"
    /\ lastc.had
    /\ lastc.calls # <<>>
    /\ lastc.calls[Len(lastc.calls)].ret
    /\ lastc.calls[Len(lastc.calls)].srv.max_age = None
    /\ instant > 0
    /\ h3_hosts[lastc.host] = AltHostEntry(instant, DefaultMaxAge)
    /\ \E h \in Hosts \ {lastc.host} : h \in DOMAIN h3_hosts

\* The services of a list that try_insert accepts for host, by position.
Eligible(host, services) ==
    {i \in 1..Len(services) :
        /\ services[i].id = H3Id
        /\ services[i].host \in {<<>>, host}
        /\ services[i].port = H3Port}

\* C33: for a response whose header parses to services, try_insert is
\* called for the services in header order up to and including the first
\* that succeeds and for none after it; at most one call changes the map,
\* and the max_age stored is that of the first eligible service.
C33_StopsAtFirstInsert ==
    [][ (lastc'.op = "response" /\ lastc'.parsed = "Services")
        => LET host == lastc'.host
               services == Parsed[lastc'.hdr[1]].services
               calls == lastc'.calls
               E == Eligible(host, services)
               first == CHOOSE i \in E : \A j \in E : i <= j
           IN  /\ Len(calls) <= Len(services)
               /\ \A i \in 1..Len(calls) : calls[i].srv = services[i]
               /\ \A i \in 1..Len(calls) : calls[i].ret => i = Len(calls)
               /\ Cardinality({i \in 1..Len(calls) : ~calls[i].same}) <= 1
               /\ E = {} => (Len(calls) = Len(services) /\ h3_hosts' = h3_hosts)
               /\ E # {} =>
                      /\ Len(calls) = first
                      /\ h3_hosts'[host] =
                             AltHostEntry(instant, unwrap_or(services[first].max_age, DefaultMaxAge)) ]_vars

\* A response advertising an ineligible service, then an eligible one with
\* max-age 0, then an eligible one with max-age 1 has stored max-age 0
\* after two calls.
C33_Witness ==
    /\ lastc.op = "response"
    /\ lastc.hdr = Some(Hdr_three)
    /\ Len(lastc.calls) = 2
    /\ ~lastc.calls[1].ret
    /\ lastc.calls[2].ret
    /\ h3_hosts[lastc.host].max_age = 0

\* C37: find leaves an entry it keeps exactly as it was, so the entry of a
\* host is always the one its last successful try_insert stored; and once
\* more than max_age whole seconds have passed since that try_insert, find
\* returns false, whatever finds came in between.
C37_FindDoesNotExtendLifetime ==
    [][ (lastc'.op = "begin" /\ lastc'.consulted)
        => LET host == lastc'.host
           IN  /\ host \in DOMAIN h3_hosts'
                  => /\ host \in DOMAIN h3_hosts
                     /\ h3_hosts'[host] = h3_hosts[host]
                     /\ accepted[host] = Some(h3_hosts'[host])
               /\ (/\ accepted[host] # None
                   /\ WholeSecondsSince(accepted[host][1].insert_time)
                          > accepted[host][1].max_age)
                  => ~lastc'.found ]_vars

\* find has returned true for an entry of max_age 1 a second after its
\* insertion and the entry still carries the insertion time it was stored
\* with.
C37_Witness ==
    /\ lastc.op = "begin" /\ lastc.consulted /\ lastc.found
    /\ accepted[lastc.host] = Some(h3_hosts[lastc.host])
    /\ h3_hosts[lastc.host].max_age = 1
    /\ instant - h3_hosts[lastc.host].insert_time = TicksPerSec

C39_FailureLeavesCacheUnchanged ==
    [][ /\ lastc'.op = "fail"
           => /\ h3_hosts' = h3_hosts
              /\ accepted' = accepted
              /\ lastc'.ret = "Err"
        /\ (/\ lastc.op = "fail" /\ lastc.http3
            /\ lastc'.op = "begin" /\ ~lastc'.port /\ lastc'.host = lastc.host
            /\ lastc.host \in DOMAIN h3_hosts
            /\ WholeSecondsSince(h3_hosts[lastc.host].insert_time)
                   <= h3_hosts[lastc.host].max_age)
           => (lastc'.found /\ lastc'.http3 /\ lastc'.alt_used = Some(lastc.host)) ]_vars

\* A request without explicit port that was sent on the multiplexed path
\* has failed and the host still has its unexpired entry.
C39_Witness ==
    /\ lastc.op = "fail"
    /\ lastc.http3
    /\ ~lastc.port
    /\ lastc.host \in DOMAIN h3_hosts
    /\ accepted[lastc.host] = Some(h3_hosts[lastc.host])
    /\ find(h3_hosts, lastc.host, instant).ret

----------------------------------------------------------------------------
(* The two mutexes along Client::execute (client.rs, http3.rs, altsvc.rs): actions *)

\* Client::execute entered; client.rs 75: find is called only for a URL
\* without explicit port.
execute_enter(c, port) ==
    /\ lpc[c] = "idle"
    /\ lpc' = [lpc EXCEPT ![c] = IF port_is_none(port) THEN "find" ELSE "route"]
    /\ UNCHANGED <<pool_mutex, cache_mutex>>
    /\ UNCHANGED <<poolVars, streamVars, cacheVars, parseVars>>

\* KnownHosts::find, altsvc.rs 135: self.map.lock()
find_lock(c) ==
    /\ lpc[c] = "find"
    /\ cache_mutex = 0
    /\ cache_mutex' = lock(cache_mutex, c)
    /\ lpc' = [lpc EXCEPT ![c] = "in_find"]
    /\ UNCHANGED pool_mutex
    /\ UNCHANGED <<poolVars, streamVars, cacheVars, parseVars>>

\* KnownHosts::find returns (altsvc.rs 140, 142)
find_return(c) ==
    /\ lpc[c] = "in_find"
    /\ cache_mutex' = drop_guard(cache_mutex)
    /\ lpc' = [lpc EXCEPT ![c] = "route"]
    /\ UNCHANGED pool_mutex
    /\ UNCHANGED <<poolVars, streamVars, cacheVars, parseVars>>

\* client.rs 82-86: the multiplexed path enters http3::Client::request and
\* get_pooled_client, the other path awaits send_h1h2_request
route(c, http3) ==
    /\ lpc[c] = "route"
    /\ lpc' = [lpc EXCEPT ![c] = IF http3 THEN "try_pool" ELSE "h1_await"]
    /\ UNCHANGED <<pool_mutex, cache_mutex>>
    /\ UNCHANGED <<poolVars, streamVars, cacheVars, parseVars>>

\* Pool::try_pool, Pool::connecting, Pool::new_connection: self.inner.lock()
\* (http3.rs 282, 272, 308)
pool_lock(c) ==
    /\ lpc[c] \in WantsPool
    /\ pool_mutex = 0
    /\ pool_mutex' = lock(pool_mutex, c)
    /\ lpc' = [lpc EXCEPT ![c] = IF lpc[c] = "try_pool" THEN "in_try_pool"
                                  ELSE IF lpc[c] = "connecting" THEN "in_connecting"
                                  ELSE "in_new_connection"]
    /\ UNCHANGED cache_mutex
    /\ UNCHANGED <<poolVars, streamVars, cacheVars, parseVars>>

\* Pool::try_pool returns Some (hit) or None (http3.rs 288, 292)
try_pool_return(c, hit) ==
    /\ lpc[c] = "in_try_pool"
    /\ pool_mutex' = drop_guard(pool_mutex)
    /\ lpc' = [lpc EXCEPT ![c] = IF hit THEN "send_await" ELSE "connecting"]
    /\ UNCHANGED cache_mutex
    /\ UNCHANGED <<poolVars, streamVars, cacheVars, parseVars>>

\* Pool::connecting returns Ok or the duplicate error, which `?` hands to
\* the caller of execute (http3.rs 274-278, 342)
connecting_return(c, ok) ==
    /\ lpc[c] = "in_connecting"
    /\ pool_mutex' = drop_guard(pool_mutex)
    /\ lpc' = [lpc EXCEPT ![c] = IF ok THEN "connect_await" ELSE "idle"]
    /\ UNCHANGED cache_mutex
    /\ UNCHANGED <<poolVars, streamVars, cacheVars, parseVars>>

\* connector.connect(dest).await resolves (http3.rs 343)
connect_done(c, ok) ==
    /\ lpc[c] = "connect_await"
    /\ lpc' = [lpc EXCEPT ![c] = IF ok THEN "new_connection" ELSE "idle"]
    /\ UNCHANGED <<pool_mutex, cache_mutex>>
    /\ UNCHANGED <<poolVars, streamVars, cacheVars, parseVars>>

\* Pool::new_connection returns the client (http3.rs 318)
new_connection_return(c) ==
    /\ lpc[c] = "in_new_connection"
    /\ pool_mutex' = drop_guard(pool_mutex)
    /\ lpc' = [lpc EXCEPT ![c] = "send_await"]
    /\ UNCHANGED cache_mutex
    /\ UNCHANGED <<poolVars, streamVars, cacheVars, parseVars>>

\* the request's .await resolves: a response whose Alt-Svc value leads to a
\* clear or an eligible try_insert (update), any other response, or an
\* error (client.rs 83, 85, 88-103)
send_done(c, res) ==
    /\ lpc[c] \in {"send_await", "h1_await"}
    /\ lpc' = [lpc EXCEPT ![c] = IF res = "update" THEN "update" ELSE "idle"]
    /\ UNCHANGED <<pool_mutex, cache_mutex>>
    /\ UNCHANGED <<poolVars, streamVars, cacheVars, parseVars>>

\* KnownHosts::clear / try_insert: self.map.lock() (altsvc.rs 146, 122)
update_lock(c) ==
    /\ lpc[c] = "update"
    /\ cache_mutex = 0
    /\ cache_mutex' = lock(cache_mutex, c)
    /\ lpc' = [lpc EXCEPT ![c] = "in_update"]
    /\ UNCHANGED pool_mutex
    /\ UNCHANGED <<poolVars, streamVars, cacheVars, parseVars>>

\* the statement that locked the map ends; execute returns Ok(res)
update_return(c) ==
    /\ lpc[c] = "in_update"
    /\ cache_mutex' = drop_guard(cache_mutex)
    /\ lpc' = [lpc EXCEPT ![c] = "idle"]
    /\ UNCHANGED pool_mutex
    /\ UNCHANGED <<poolVars, streamVars, cacheVars, parseVars>>

\* the execute future is dropped while suspended
cancel(c) ==
    /\ lpc[c] \in AwaitPoints
    /\ lpc' = [lpc EXCEPT ![c] = "idle"]
    /\ UNCHANGED <<pool_mutex, cache_mutex>>
    /\ UNCHANGED <<poolVars, streamVars, cacheVars, parseVars>>

LockNext ==
    \/ \E c \in Callers, port \in BOOLEAN : execute_enter(c, port)
    \/ \E c \in Callers : find_lock(c)
    \/ \E c \in Callers : find_return(c)
    \/ \E c \in Callers, http3 \in BOOLEAN : route(c, http3)
    \/ \E c \in Callers : pool_lock(c)
    \/ \E c \in Callers, hit \in BOOLEAN : try_pool_return(c, hit)
    \/ \E c \in Callers, ok \in BOOLEAN : connecting_return(c, ok)
    \/ \E c \in Callers, ok \in BOOLEAN : connect_done(c, ok)
    \/ \E c \in Callers : new_connection_return(c)
    \/ \E c \in Callers, res \in {"update", "other", "err"} : send_done(c, res)
    \/ \E c \in Callers : update_lock(c)
    \/ \E c \in Callers : update_return(c)
    \/ \E c \in Callers : cancel(c)

SpecLocks == Init /\ [][LockNext]_vars

----------------------------------------------------------------------------
(* The two mutexes: claims *)

\* C40: the pool mutex is held only by a caller inside try_pool, connecting
\* or new_connection; a caller at a suspension point holds neither mutex;
\* no caller holds both mutexes; and the holder of a mutex is always inside
\* the synchronous function that took it, never waiting for the other mutex
\* or for an await, so a caller waiting for a mutex gets it after the
\* holder's next step.
C40_PoolLockNotHeldAcrossAwait ==
    /\ \A c \in Callers : pool_mutex = c <=> lpc[c] \in InPool
    /\ \A c \in Callers : cache_mutex = c <=> lpc[c] \in InCache
    /\ \A c \in Callers : lpc[c] \in AwaitPoints => (pool_mutex # c /\ cache_mutex # c)
    /\ ~(pool_mutex # 0 /\ pool_mutex = cache_mutex)
    /\ pool_mutex # 0 => lpc[pool_mutex] \notin (WantsPool \cup WantsCache \cup AwaitPoints)
    /\ cache_mutex # 0 => lpc[cache_mutex] \notin (WantsPool \cup WantsCache \cup AwaitPoints)

\* One caller is suspended in connector.connect while another caller holds
\* the pool mutex inside try_pool.
C40_Witness ==
    \E c, d \in Callers :
        /\ lpc[c] = "connect_await"
        /\ lpc[d] = "in_try_pool"
        /\ pool_mutex = d
        /\ cache_mutex = 0

====
